---- MODULE Spec2Model ----
(***************************************************************************)
(* Model of the ingestion-and-processing pipeline of py-image-storage:     *)
(* the watchdog event handler (watcher.py, FileEventHandler), the work     *)
(* queue and drain cycle (watcher.py, FileWatcher), the per-file workflow  *)
(* (processor.py, FileProcessor), the compressor front end with its        *)
(* operation cache (compressor.py, ImageCompressor) and the application    *)
(* start-up (application.py).                                              *)
(*                                                                         *)
(* One action is one run of a handler between two suspension points of     *)
(* the asyncio event loop (or one run of a callback on the observer's      *)
(* thread, or of the codec on an executor thread).  The filesystem is      *)
(* part of the state; an external writer may create, rewrite and delete    *)
(* files of the watched tree between any two actions.                      *)
(***************************************************************************)
EXTENDS Integers, Sequences, FiniteSets, TLC

----------------------------------------------------------------------------
(* Bounds of the model.                                                    *)

\* jobs the work queue may hold (asyncio.Queue() itself is unbounded)
MaxQueue == 3
\* polls wait_for_file_ready makes before its timeout elapses
\* (timeout / check_interval; 10 s / 0.5 s in the source defaults)
TimeoutPolls == 2
\* writes and deletions by the external writer
MaxWrites == 1
\* notifications delivered to on_modified in the pipeline specification
MaxEvents == 1
\* notifications delivered in the debounce specification
MaxBurst == 5
\* passes of periodic_cleanup
MaxScans == 1
\* seconds the clock int(time.time()) may advance
MaxTime == 1
\* entries the event cache holds before it evicts; TTLCache(maxsize=100) in
\* the source, scaled down: eviction works the same at every capacity
EventCacheMaxSize == 2

----------------------------------------------------------------------------
(* Paths.  A path is its directory (a sequence of components), the stem    *)
(* of its file name and the extension os.path.splitext gives.              *)

Path(dir, stem, ext) == [dir |-> dir, stem |-> stem, ext |-> ext]

\* config.uncompressed_path and config.compressed_path
Root == <<"in">>
DestRoot == <<"out">>
SubDir == <<"in", "sub">>
\* a subdirectory whose name repeats the name of the watched root
InnerDir == <<"in", "in">>

FileA == Path(Root, "a", ".jpg")
FileB == Path(SubDir, "b", ".PNG")
FileC == Path(SubDir, "c", ".webp")
FileD == Path(SubDir, "d", ".txt")
FileE == Path(InnerDir, "e", ".txt")
\* a second image whose .webp destination is that of FileB
FileF == Path(SubDir, "b", ".jpg")

\* every source path of the watched tree, in the order os.walk lists them
\* (top-down: the root's files before those of its subdirectories)
WalkOrder == <<FileA, FileE, FileB, FileC, FileD, FileF>>
SrcPaths == {WalkOrder[i] : i \in 1..Len(WalkOrder)}
AllSrcDirs == {Root, SubDir, InnerDir}
\* the pairs of source paths a run may be about
Universes == {{FileA, FileB}, {FileA, FileC}, {FileB, FileD}, {FileC, FileD}}

\* file sizes in bytes; 1024 bytes is the threshold for min_file_size_kb = 1
Sizes == {0, 1023, 1024}
\* modification times (days since 2023-06-01)
MTimes == {1, 40}

NoFile == [exists |-> FALSE, size |-> 0, mtime |-> 0, isdir |-> FALSE]
FileRec(s, t) == [exists |-> TRUE, size |-> s, mtime |-> t, isdir |-> FALSE]
\* an (empty) directory standing at a path where jobs expect a file
DirRec == [exists |-> TRUE, size |-> 0, mtime |-> 0, isdir |-> TRUE]

\* datetime.fromtimestamp(mtime).strftime('%Y-%m')
YearMonth(t) == IF t <= 30 THEN "2023-06" ELSE "2023-07"

\* str.lower() on the extension
Lower(ext) ==
  CASE ext = ".PNG" -> ".png"
    [] ext = ".JPG" -> ".jpg"
    [] ext = ".WEBP" -> ".webp"
    [] OTHER -> ext

\* os.path.dirname / os.path.normpath on component sequences
DirName(p) == p.dir
NormPath(d) == SelectSeq(d, LAMBDA c : c # ".")
ParentDir(d) == SubSeq(d, 1, Len(d) - 1)

\* str.replace(old, new) on component sequences: every occurrence is replaced
RECURSIVE ReplaceAll(_, _, _)
ReplaceAll(s, old, new) ==
  IF Len(s) < Len(old) THEN s
  ELSE IF SubSeq(s, 1, Len(old)) = old
       THEN new \o ReplaceAll(SubSeq(s, Len(old) + 1, Len(s)), old, new)
       ELSE <<Head(s)>> \o ReplaceAll(Tail(s), old, new)

\* a destination that keeps the extension of the source
KeepExtension(p) == p

\* ImageCompressor._ensure_webp_extension
EnsureWebpExtension(p) == [p EXCEPT !.ext = ".webp"]

\* os.path.join(compressed_path, yyyy_mm, file_name)
MonthDest(p, t) == Path(DestRoot \o <<YearMonth(t)>>, p.stem, p.ext)
\* source_path.replace(uncompressed_path, compressed_path)
MirrorDest(p) == [p EXCEPT !.dir = ReplaceAll(p.dir, Root, DestRoot)]

\* every prefix of d, d included: the directories os.makedirs(d) leaves existing
Prefixes(d) == {SubSeq(d, 1, n) : n \in 1..Len(d)}

----------------------------------------------------------------------------
VARIABLES
  config,      \* Config: the fields the pipeline reads
  universe,    \* the source paths that take part in this run
  files,       \* watched tree: path -> [exists, size, mtime]
  srcDirs,     \* watched tree: the directories that exist
  dstFiles,    \* destination tree: the files that exist
  dstDirs,     \* destination tree: the directories that exist
  queue,       \* FileWatcher.queue: sequence of (source, dest) jobs
  eventCache,  \* FileEventHandler.cache: keys (second, path), oldest first
  now,         \* int(time.time())
  compCache,   \* ImageCompressor.cache: keys (source, dest)
  phase,       \* position of the application: startup, initial_batch, running
  batch,       \* the jobs of the process_batch in progress
  permits,     \* FileProcessor.semaphore: free permits
  orphans,     \* executor threads still in _compress_sync for a cancelled job
  budget,      \* what the environment may still do: writes, events, scans left
               \* and the jobs the queue may hold
  hist,        \* history of the run, read by the properties only
  mode,        \* task_handler.mode, the way handle_tasks runs its tasks
  drain,       \* process_queue inside its drain loop: position and file_pairs
  dstPartial,  \* destination tree: the files a codec is still writing, or left unfinished
  watcher      \* FileWatcher.cleanup_task and FileWatcher.observer

vars == <<drain, dstPartial, watcher, mode, config, universe, files, srcDirs, dstFiles, dstDirs, queue, eventCache,
          now, compCache, phase, batch, permits, orphans, budget, hist>>

fsVars == <<files, srcDirs, dstFiles, dstDirs>>

\* process_queue is not running; no cleanup task, no observer yet
NoDrain == [pc |-> "idle", file_pairs |-> <<>>, returned |-> <<>>]
NoWatcher == [cleanup_task |-> "none", observer |-> "none"]

\* os.path.exists, isfile, isdir and getsize on the watched tree
Exists(p) == files[p].exists
IsFile(p) == files[p].exists /\ ~files[p].isdir
IsDir(p) == files[p].isdir
GetSize(p) == files[p].size

\* os.listdir(d) = [] on the watched tree
ListDirEmpty(fs, dirs, d) ==
  /\ \A p \in SrcPaths : fs[p].exists => p.dir # d
  /\ \A e \in dirs : ~(Len(e) > 1 /\ ParentDir(e) = d)

----------------------------------------------------------------------------
(* Filesystem operations.                                                  *)

\* os.remove(p) on the watched tree
Remove(fs, p) == [fs EXCEPT ![p] = NoFile]

\* a per-job cleanup without its test for the root
CleanupAnyEmptyDirectory(fs, dirs, p) ==
  LET parent_dir == DirName(p) IN
  IF parent_dir \in dirs /\ ListDirEmpty(fs, dirs, parent_dir)
  THEN dirs \ {parent_dir}
  ELSE dirs

\* history: a cleanup (`who`) has run on the tree (fs, dirs) for directory d; the
\* cleanups that met the watched root empty are remembered
NoteCleanup(h, who, fs, dirs, d) ==
  IF NormPath(d) = NormPath(Root) /\ ListDirEmpty(fs, dirs, Root)
  THEN [h EXCEPT !.rootSeenEmpty = @ \cup {who}]
  ELSE h

\* FileProcessor._cleanup_empty_directory: the directories left after it
CleanupEmptyDirectory(fs, dirs, p) ==
  LET parent_dir == DirName(p) IN
  IF NormPath(parent_dir) = NormPath(Root) THEN dirs
  ELSE IF parent_dir \in dirs /\ ListDirEmpty(fs, dirs, parent_dir)
       THEN dirs \ {parent_dir}
       ELSE dirs

\* should_compress without its size threshold
ShouldCompressAnySize(p, size, cfg) ==
  Lower(p.ext) \in {".jpg", ".jpeg", ".png"}

\* a should_compress that looks at the size only
ShouldCompressAnyType(p, size, cfg) ==
  ~(size < cfg.min_file_size_kb * 1024)

\* ImageCompressor.should_compress
ShouldCompress(p, size, cfg) ==
  /\ Lower(p.ext) \in {".jpg", ".jpeg", ".png"}
  /\ ~(size < cfg.min_file_size_kb * 1024)

\* a skip-existing test that looks at dest_path only
DestinationExistsExact(dst, existing) == dst \in existing

\* the skip-existing test of process_file
DestinationAlreadyExists(dst, existing) ==
  dst \in existing \/ EnsureWebpExtension(dst) \in existing

\* a wait that lets the file through when the timeout elapses
WaitStepProceedOnTimeout(polls, exists, last_size, current_size) ==
  IF ~(polls < TimeoutPolls) THEN "ready"
  ELSE IF ~exists THEN "vanished"
  ELSE IF current_size = last_size /\ current_size > 0 THEN "ready"
  ELSE "sleep"

\* a wait that accepts an empty file
WaitStepAcceptEmpty(polls, exists, last_size, current_size) ==
  IF ~(polls < TimeoutPolls) THEN "timeout"
  ELSE IF ~exists THEN "vanished"
  ELSE IF current_size = last_size THEN "ready"
  ELSE "sleep"

\* one iteration of the loop of wait_for_file_ready, entered with `polls`
\* sleeps behind it: what the iteration decides
WaitStep(polls, exists, last_size, current_size) ==
  IF ~(polls < TimeoutPolls) THEN "timeout"
  ELSE IF ~exists THEN "vanished"
  ELSE IF current_size = last_size /\ current_size > 0 THEN "ready"
  ELSE "sleep"

----------------------------------------------------------------------------
(* The drain cycle: FileWatcher.process_queue.                             *)

\* seen = {}; for source, dest in file_pairs: seen[source] = dest
\* (a dict keeps the order of first insertion and the last value)
RECURSIVE SeenFrom(_, _, _)
SeenFrom(pairs, i, seen) ==
  IF i > Len(pairs) THEN seen
  ELSE LET pr == pairs[i]
           hit == {k \in 1..Len(seen) : seen[k].src = pr.src}
       IN IF hit = {}
          THEN SeenFrom(pairs, i + 1, Append(seen, pr))
          ELSE SeenFrom(pairs, i + 1,
                        [k \in 1..Len(seen) |->
                           IF k \in hit THEN [seen[k] EXCEPT !.dst = pr.dst]
                           ELSE seen[k]])

\* a drain that hands every queued pair to process_batch
KeepEveryPair(pairs) == pairs

\* a drain that keeps, for each source, the pair that was enqueued first
KeepFirstPair(pairs) ==
  LET first == {i \in 1..Len(pairs) :
                  \A k \in 1..(i - 1) : pairs[k].src # pairs[i].src}
      rank(i) == Cardinality({k \in first : k <= i})
  IN [n \in 1..Cardinality(first) |-> pairs[CHOOSE i \in first : rank(i) = n]]

\* the pairs process_queue hands to process_batch
DeduplicateBySource(pairs) == SeenFrom(pairs, 1, <<>>)

\* the task process_batch creates for one pair: process_file before its first step
NewJob(pr) ==
  [src |-> pr.src, dst |-> pr.dst, pc |-> "pending", last_size |-> -1, polls |-> 0,
   result |-> FALSE, branch |-> "none", codec |-> "none",
   \* history of the job, read by the properties only: the filesystem calls it
   \* made, whether every poll read a new size, the source and the destination
   \* as it found them, whether the external writer touched the source since
   ops |-> {}, alldiff |-> TRUE, start |-> NoFile, destSeen |-> FALSE,
   touched |-> FALSE]

Idle == batch = <<>>

ProcessQueue ==
  /\ phase \in {"scanned", "running", "stopping"}
  /\ Idle
  /\ queue # <<>>
  /\ LET file_pairs == DeduplicateBySource(queue) IN
     /\ batch' = [i \in 1..Len(file_pairs) |-> NewJob(file_pairs[i])]
     /\ hist' = [hist EXCEPT
                   !.codecCalls = [p \in SrcPaths |-> 0],
                   !.dupAtDrain = {p \in SrcPaths :
                      Cardinality({k \in 1..Len(queue) : queue[k].src = p}) > 1},
                   !.submitted = IF phase = "stopping" THEN file_pairs ELSE @]
  /\ queue' = <<>>
  /\ phase' = IF phase = "scanned" THEN "initial_batch" ELSE phase
  /\ UNCHANGED <<drain, dstPartial, watcher, mode, orphans, config, universe, fsVars, eventCache, now, compCache, permits, budget>>

----------------------------------------------------------------------------
(* The per-file workflow: FileProcessor.process_file.  A job holds a       *)
(* permit from its first step until it is done.                            *)

Finish(j, result, branch) == [j EXCEPT !.pc = "done", !.result = result, !.branch = branch]

\* cache_key in self.cache, in ImageCompressor.compress
CacheHit(cache, key, expired) == key \in cache /\ ~expired

\* a compress() that marks nothing
MarkNothing(cache, key) == cache

\* self.cache[cache_key] = True, in ImageCompressor.compress
MarkProcessing(cache, key) == cache \cup {key}

\* the original removed whatever compress() returned
AfterCompressAlways(fs, src, success) ==
  IF fs[src].exists THEN Remove(fs, src) ELSE fs

\* the source tree after compress() has returned `success`
AfterCompress(fs, src, success) ==
  IF success /\ fs[src].exists THEN Remove(fs, src) ELSE fs

\* process_file without its first check
SourceNeverMissing(fs, p) == FALSE

\* a process_file that takes no path for a directory
NeverDir(fs, p) == FALSE

\* os.path.isdir(source_path), the second check of process_file
SourceIsDir(fs, p) == fs[p].isdir

\* not os.path.exists(source_path), the first check of process_file
SourceMissing(fs, p) == ~fs[p].exists

\* async with self.semaphore, the checks of the source and of the destination
\* and the first iteration of wait_for_file_ready, up to its first sleep
StartJob(i) ==
  LET j == [batch[i] EXCEPT !.start = files[batch[i].src],
                            !.destSeen = batch[i].dst \in dstFiles \/
                                         EnsureWebpExtension(batch[i].dst) \in dstFiles]
  IN
  /\ i \in 1..Len(batch)
  /\ j.pc = "pending"
  /\ \A k \in 1..(i - 1) : batch[k].pc # "pending"
  /\ permits > 0
  /\ IF SourceMissing(files, j.src)
     THEN /\ batch' = [batch EXCEPT ![i] = Finish(j, FALSE, "missing")]
          /\ UNCHANGED <<files, permits>>
     ELSE IF SourceIsDir(files, j.src)
     THEN /\ batch' = [batch EXCEPT ![i] = Finish(j, FALSE, "isdir")]
          /\ UNCHANGED <<files, permits>>
     ELSE IF config.skip_existing_files /\ DestinationAlreadyExists(j.dst, dstFiles)
     THEN /\ batch' = [batch EXCEPT ![i] =
                         Finish([j EXCEPT !.ops = @ \cup
                                   (IF Exists(j.src) THEN {"remove"} ELSE {})],
                                TRUE, "skip")]
          /\ files' = IF Exists(j.src) THEN Remove(files, j.src) ELSE files
          /\ UNCHANGED permits
     ELSE /\ batch' = [batch EXCEPT ![i] =
                         [j EXCEPT !.pc = "sleeping", !.last_size = GetSize(j.src),
                                   !.polls = 1]]
          /\ permits' = permits - 1
          /\ UNCHANGED files
  /\ UNCHANGED <<drain, dstPartial, watcher, mode, orphans, config, universe, srcDirs, dstFiles, dstDirs, queue, eventCache, now,
                 compCache, phase, budget, hist>>

\* the rest of process_file once the file is ready, up to the call of the codec;
\* `expired` tells whether an entry of ImageCompressor.cache for this job has
\* left the cache by now (its ttl has passed, or cache_maxsize newer keys have
\* pushed it out)
Decide(i, expired) ==
  LET j == batch[i]
      src == j.src
      dst == j.dst
      dest_dir == DirName(dst)
      mk == IF dest_dir \in dstDirs THEN {} ELSE {"makedirs"}
      moved == Remove(files, src)
  IN
  /\ dstDirs' = dstDirs \cup Prefixes(dest_dir)
  /\ IF Lower(src.ext) = ".webp"
     THEN \* already WebP: os.rename, return True
          /\ files' = moved
          /\ dstFiles' = dstFiles \cup {dst}
          /\ batch' = [batch EXCEPT ![i] =
                         Finish([j EXCEPT !.ops = @ \cup mk \cup {"rename"}], TRUE, "webp")]
          /\ permits' = permits + 1
          /\ UNCHANGED <<srcDirs, compCache, hist>>
     ELSE IF ShouldCompress(src, GetSize(src), config)
     THEN IF CacheHit(compCache, <<src, dst>>, expired)
          THEN \* compress() answers True from its cache
               LET fs == AfterCompress(files, src, TRUE) IN
               /\ files' = fs
               /\ srcDirs' = CleanupEmptyDirectory(fs, srcDirs, src)
               /\ batch' = [batch EXCEPT ![i] =
                              Finish([j EXCEPT !.ops = @ \cup mk \cup
                                        (IF fs # files THEN {"remove"} ELSE {}) \cup
                                        (IF srcDirs' # srcDirs THEN {"rmdir"} ELSE {})],
                                     TRUE, "cached")]
               /\ permits' = permits + 1
               /\ hist' = NoteCleanup(hist, "job", fs, srcDirs, DirName(src))
               /\ UNCHANGED <<dstFiles, compCache>>
          ELSE \* compress() marks the key and hands _compress_sync to the executor
               /\ compCache' = MarkProcessing(compCache, <<src, dst>>)
               /\ batch' = [batch EXCEPT ![i] =
                              [j EXCEPT !.pc = "codec", !.branch = "transform",
                                        !.codec = "running", !.ops = @ \cup mk]]
               /\ hist' = [hist EXCEPT !.codecCalls[src] = @ + 1]
               /\ UNCHANGED <<files, srcDirs, dstFiles, permits>>
     ELSE \* not an image or too small: os.rename, then the directory cleanup
          /\ files' = moved
          /\ dstFiles' = dstFiles \cup {dst}
          /\ srcDirs' = CleanupEmptyDirectory(moved, srcDirs, src)
          /\ batch' = [batch EXCEPT ![i] =
                         Finish([j EXCEPT !.ops = @ \cup mk \cup {"rename"} \cup
                                   (IF srcDirs' # srcDirs THEN {"rmdir"} ELSE {})],
                                TRUE, "move")]
          /\ permits' = permits + 1
          /\ hist' = NoteCleanup(hist, "job", moved, srcDirs, DirName(src))
          /\ UNCHANGED compCache

\* wait_for_file_ready wakes from asyncio.sleep(check_interval) and runs its next
\* iteration; when the file is ready process_file goes on in the same step
Poll(i, expired) ==
  LET j == batch[i]
      step == WaitStep(j.polls, Exists(j.src), j.last_size, GetSize(j.src))
  IN
  /\ i \in 1..Len(batch)
  /\ j.pc = "sleeping"
  /\ CASE step \in {"timeout", "vanished"} ->
            /\ batch' = [batch EXCEPT ![i] = Finish(j, FALSE, step)]
            /\ permits' = permits + 1
            /\ UNCHANGED <<fsVars, compCache, hist>>
       [] step = "sleep" ->
            /\ batch' = [batch EXCEPT ![i] =
                           [j EXCEPT !.last_size = GetSize(j.src), !.polls = @ + 1,
                                     !.alldiff = @ /\ GetSize(j.src) # j.last_size]]
            /\ UNCHANGED <<fsVars, compCache, hist, permits>>
       [] step = "ready" -> Decide(i, expired)
  /\ UNCHANGED <<drain, dstPartial, watcher, mode, orphans, config, universe, queue, eventCache, now, phase, budget>>

\* ImageCompressor._compress_sync on an executor thread: it fails when the source
\* is gone, and otherwise writes the .webp destination or fails
CodecRun(i, ok) ==
  LET j == batch[i]
      success == ok /\ Exists(j.src)
  IN
  /\ i \in 1..Len(batch)
  /\ j.pc = "codec"
  /\ batch' = [batch EXCEPT ![i] =
                 [j EXCEPT !.pc = "codec_done",
                           !.codec = IF success THEN "ok" ELSE "fail"]]
  /\ dstFiles' = IF success THEN dstFiles \cup {EnsureWebpExtension(j.dst)} ELSE dstFiles
  /\ hist' = [hist EXCEPT !.lastCodec[j.src] = IF success THEN "ok" ELSE "fail"]
  /\ UNCHANGED <<drain, dstPartial, watcher, mode, orphans, config, universe, files, srcDirs, dstDirs, queue, eventCache, now,
                 compCache, phase, permits, budget>>

\* process_file resumes after await compress(): remove the original and clean
\* up on success, keep it on failure
CodecReturn(i) ==
  LET j == batch[i]
      success == j.codec = "ok"
      fs == AfterCompress(files, j.src, success)
  IN
  /\ i \in 1..Len(batch)
  /\ j.pc = "codec_done"
  /\ files' = fs
  /\ srcDirs' = IF success THEN CleanupEmptyDirectory(fs, srcDirs, j.src) ELSE srcDirs
  /\ batch' = [batch EXCEPT ![i] =
                 Finish([j EXCEPT !.ops = @ \cup
                           (IF fs # files THEN {"remove"} ELSE {}) \cup
                           (IF srcDirs' # srcDirs THEN {"rmdir"} ELSE {})],
                        success, "transform")]
  /\ permits' = permits + 1
  /\ hist' = IF success THEN NoteCleanup(hist, "job", fs, srcDirs, DirName(j.src)) ELSE hist
  /\ UNCHANGED <<drain, dstPartial, watcher, mode, orphans, config, universe, dstFiles, dstDirs, queue, eventCache, now,
                 compCache, phase, budget>>

\* a count that takes every result for a success
CountEveryResult(results) == Len(results)

\* sum(1 for r in results if r is True)
SuccessCount(results) == Cardinality({i \in DOMAIN results : results[i] = TRUE})

\* a process_batch that reports no failure
BatchCountsNoFailure(results) == [success |-> SuccessCount(results), failed |-> 0]

\* what process_batch returns for the results gather collected
BatchCounts(results) ==
  IF results = <<>> THEN [success |-> 0, failed |-> 0]
  ELSE [success |-> SuccessCount(results),
        failed |-> Len(results) - SuccessCount(results)]

\* asyncio.gather returns: process_batch counts the results and process_queue returns
BatchComplete ==
  /\ batch # <<>>
  /\ \A i \in 1..Len(batch) : batch[i].pc = "done"
  /\ batch' = <<>>
  /\ phase' = CASE phase = "initial_batch" -> "ready"
                 [] phase = "stopping" -> "drained"
                 [] OTHER -> phase
  /\ hist' = [hist EXCEPT
                !.counts = BatchCounts([i \in 1..Len(batch) |-> batch[i].result]),
                !.noop = Cardinality({i \in 1..Len(batch) :
                                        batch[i].branch \in {"missing", "isdir"}})]
  /\ UNCHANGED <<drain, dstPartial, watcher, mode, orphans, config, universe, fsVars, queue, eventCache, now, compCache, permits,
                 budget>>

----------------------------------------------------------------------------
(* The reconciliation scanner: FileWatcher.scan_initial_files and          *)
(* FileWatcher.periodic_cleanup.                                           *)

\* a scan that mirrors every path
ScanDestinationMirror(p) == MirrorDest(p)

\* the destination both scans compute for a file found under `root`
ScanDestination(p) ==
  IF DirName(p) = Root THEN MonthDest(p, files[p].mtime) ELSE MirrorDest(p)

\* the jobs one os.walk of the watched tree enqueues, in walk order
\* a walk that lists the files of the root directory only
WalkRootOnly ==
  LET found == SelectSeq(WalkOrder, LAMBDA p : IsFile(p) /\ DirName(p) = Root) IN
  [k \in 1..Len(found) |-> [src |-> found[k], dst |-> ScanDestination(found[k])]]

WalkJobs ==
  LET found == SelectSeq(WalkOrder, LAMBDA p : IsFile(p)) IN
  [k \in 1..Len(found) |-> [src |-> found[k], dst |-> ScanDestination(found[k])]]

\* FileWatcher._cleanup_empty_directories: os.walk(topdown=False) visits the
\* deepest directories first and removes each one that os.listdir finds empty
RECURSIVE BottomUp(_, _, _)
BottomUp(fs, dirs, depth) ==
  IF depth = 0 THEN dirs
  ELSE LET empty == {d \in dirs : Len(d) = depth /\ d # Root /\ ListDirEmpty(fs, dirs, d)}
       IN BottomUp(fs, dirs \ empty, depth - 1)

\* the empty directories that stand at source paths are leaves of the walk:
\* os.rmdir removes them before their parents are looked at
WithoutEmptyDirs(fs) == [p \in SrcPaths |-> IF fs[p].isdir THEN NoFile ELSE fs[p]]

\* a cleanup that removes the directories it finds empty before any removal
CleanupListedEmpty(fs, dirs) ==
  dirs \ {d \in dirs : d # Root /\ ListDirEmpty(fs, dirs, d)}

CleanupEmptyDirectories(fs, dirs) ==
  BottomUp(WithoutEmptyDirs(fs), dirs, Cardinality(AllSrcDirs))

\* Application.startup: scan_initial_files; process_queue follows when it found files
ScanInitialFiles ==
  /\ phase = "startup"
  /\ queue' = queue \o WalkJobs
  /\ phase' = IF Len(WalkJobs) > 0 THEN "scanned" ELSE "ready"
  /\ UNCHANGED <<drain, dstPartial, watcher, mode, orphans, config, universe, fsVars, eventCache, now, compCache, batch, permits,
                 budget, hist>>

\* a start that does not wait for startup to return
StartWatcherEarly ==
  /\ phase \in {"scanned", "initial_batch", "ready"}
  /\ phase' = "running"
  /\ watcher' = [cleanup_task |-> "sleeping", observer |-> "started"]
  /\ UNCHANGED <<drain, dstPartial, mode, orphans, config, universe, fsVars, queue, eventCache, now, compCache, batch,
                 permits, budget, hist>>

\* FileWatcher.start: the observer is started and the periodic task created
StartWatcher ==
  /\ phase = "ready"
  /\ phase' = "running"
  /\ watcher' = [cleanup_task |-> "sleeping", observer |-> "started"]
  /\ UNCHANGED <<drain, dstPartial, mode, orphans, config, universe, fsVars, queue, eventCache, now, compCache, batch,
                 permits, budget, hist>>

\* one pass of the loop of periodic_cleanup, after its sleep
PeriodicCleanup ==
  /\ phase = "running"
  /\ watcher.cleanup_task = "sleeping"
  /\ budget.scans > 0
  /\ Len(queue) + Len(WalkJobs) <= budget.cap
  /\ queue' = queue \o WalkJobs
  /\ srcDirs' = CleanupEmptyDirectories(files, srcDirs)
  /\ budget' = [budget EXCEPT !.scans = @ - 1]
  /\ files' = WithoutEmptyDirs(files)
  /\ hist' = [NoteCleanup(hist, "periodic", files', srcDirs, Root) EXCEPT
                !.sweptNested = \E p \in SrcPaths :
                                  IsDir(p) /\ DirName(p) \in srcDirs \ srcDirs',
                !.recovered = @ \/ hist.raised]
  /\ UNCHANGED <<drain, dstPartial, watcher, mode, orphans, config, universe, dstFiles, dstDirs, eventCache, now, compCache,
                 phase, batch, permits>>

\* a pass whose exception leaves the loop: the periodic task ends
PeriodicCleanupDies(n) ==
  /\ phase = "running"
  /\ watcher.cleanup_task = "sleeping"
  /\ budget.scans > 0
  /\ n \in 0..Len(WalkJobs)
  /\ IF n < Len(WalkJobs) THEN DirName(WalkJobs[n + 1].src) = Root
                          ELSE srcDirs \ {Root} # {}
  /\ Len(queue) + n <= budget.cap
  /\ queue' = queue \o SubSeq(WalkJobs, 1, n)
  /\ budget' = [budget EXCEPT !.scans = @ - 1]
  /\ watcher' = [watcher EXCEPT !.cleanup_task = "dead"]
  /\ hist' = [hist EXCEPT !.raised = TRUE]
  /\ UNCHANGED <<drain, dstPartial, mode, orphans, config, universe, fsVars, eventCache,
                 now, compCache, phase, batch, permits>>

\* one pass of the loop of periodic_cleanup that raises: after n files were
\* enqueued, datetime.fromtimestamp raises for the next file, which lies in
\* the root (a modification time out of its range), or, with every file
\* enqueued, os.listdir raises for the first subdirectory (it was removed
\* since the walk listed it).  `except Exception` logs it inside `while True`.
PeriodicCleanupRaises(n) ==
  /\ phase = "running"
  /\ watcher.cleanup_task = "sleeping"
  /\ budget.scans > 0
  /\ n \in 0..Len(WalkJobs)
  /\ IF n < Len(WalkJobs) THEN DirName(WalkJobs[n + 1].src) = Root
                          ELSE srcDirs \ {Root} # {}
  /\ Len(queue) + n <= budget.cap
  /\ queue' = queue \o SubSeq(WalkJobs, 1, n)
  /\ budget' = [budget EXCEPT !.scans = @ - 1]
  /\ hist' = [hist EXCEPT !.raised = TRUE]
  /\ UNCHANGED <<drain, dstPartial, watcher, mode, orphans, config, universe, fsVars,
                 eventCache, now, compCache, phase, batch, permits>>

----------------------------------------------------------------------------
(* The event watcher: FileEventHandler, called on the observer's thread.   *)

\* TTLCache(maxsize=100, ttl=60): the time-to-live of an entry, in seconds
EventCacheTTL == 60

\* the entries of the cache that have not expired at second t
Unexpired(cache, t) == SelectSeq(cache, LAMBDA k : k[1] + EventCacheTTL > t)

\* TTLCache.__setitem__ for a new key: expired entries go first, then the
\* oldest entry when the cache is full
CacheInsert(cache, key, t) ==
  LET live == Unexpired(cache, t) IN
  IF Len(live) >= EventCacheMaxSize THEN Append(Tail(live), key) ELSE Append(live, key)

\* a handler that remembers no event
NeverDuplicateEvent(cache, key, t) == FALSE

\* FileEventHandler._is_duplicate_event: the answer
IsDuplicateEvent(cache, key, t) ==
  \E k \in 1..Len(Unexpired(cache, t)) : Unexpired(cache, t)[k] = key

\* FileEventHandler._calculate_destination_path
CalculateDestinationPath(p) ==
  IF DirName(p) = Root /\ IsFile(p) THEN MonthDest(p, files[p].mtime) ELSE MirrorDest(p)

\* FileEventHandler.on_modified for one notification, delivered at second t
\* a handler that looks at directory notifications too
IgnoresNothing(is_directory) == FALSE

\* if event.is_directory: return
IgnoresEvent(is_directory) == is_directory

OnModified(p, is_directory, t) ==
  /\ phase \in {"running", "watching"}
  /\ watcher.observer = "started"
  /\ budget.events > 0
  /\ t >= now
  /\ now' = t
  /\ budget' = [budget EXCEPT !.events = @ - 1]
  /\ IF IgnoresEvent(is_directory)
     THEN /\ hist' = [hist EXCEPT !.lastIsDir = is_directory]
          /\ UNCHANGED <<eventCache, queue>>
     ELSE LET key == <<t, p>> IN
          IF IsDuplicateEvent(eventCache, key, t)
          THEN /\ hist' = [hist EXCEPT !.events = Append(@, key),
                                        !.lastIsDir = is_directory]
               /\ UNCHANGED <<eventCache, queue>>
          ELSE /\ Len(queue) < budget.cap
               /\ eventCache' = CacheInsert(eventCache, key, t)
               /\ queue' = Append(queue, [src |-> p, dst |-> CalculateDestinationPath(p)])
               /\ hist' = [hist EXCEPT !.pushed = Append(@, key),
                                        !.events = Append(@, key),
                                        !.lastIsDir = is_directory]
  /\ UNCHANGED <<drain, dstPartial, watcher, mode, orphans, config, universe, fsVars, compCache, phase, batch, permits>>

----------------------------------------------------------------------------
(* Shutdown: Application.run cancels the watcher task, Application.shutdown *)
(* stops the watcher and drains what is left in the queue.                 *)

\* the jobs of a batch that have begun process_file and not ended it
\* no job counts as started: a cancellation that hands back no permit
StartedNone(j) == FALSE

\* the jobs inside `async with self.semaphore`
Started(j) == j.pc \in {"sleeping", "codec", "codec_done"}

\* when the shutdown signal may take effect: watcher_task.cancel() reaches the
\* task wherever it is suspended
ShutdownEnabled == phase = "running"

\* Application.run after the shutdown event: watcher_task.cancel().  The task
\* is suspended in gather (a batch is in progress) or in its one-second sleep;
\* gather cancels its children, CancelledError leaves process_file through
\* `async with`, which releases the permit; an executor thread that is running
\* _compress_sync cannot be cancelled and goes on.  FileWatcher.stop follows.
Shutdown ==
  /\ ShutdownEnabled
  /\ phase' = "stopping"
  /\ watcher' = [cleanup_task |-> "cancelled", observer |-> "stopped"]
  /\ orphans' = orphans \cup
       {[src |-> batch[i].src, dst |-> batch[i].dst] :
          i \in {k \in 1..Len(batch) : batch[k].pc = "codec"}}
  /\ hist' = [hist EXCEPT !.abandoned =
                 {[src |-> batch[i].src, at |-> batch[i].pc, codec |-> batch[i].codec] :
                    i \in {k \in 1..Len(batch) : Started(batch[k])}},
                           !.atShutdown = queue]
  /\ batch' = <<>>
  /\ permits' = permits + Cardinality({k \in 1..Len(batch) : Started(batch[k])})
  /\ UNCHANGED <<drain, dstPartial, mode, config, universe, fsVars, queue, eventCache, now, compCache, budget>>

\* _compress_sync ends on its executor thread after its job was cancelled
OrphanCodecRun(o, ok) ==
  LET success == ok /\ Exists(o.src) IN
  /\ o \in orphans
  /\ orphans' = orphans \ {o}
  /\ dstFiles' = IF success THEN dstFiles \cup {EnsureWebpExtension(o.dst)} ELSE dstFiles
  /\ hist' = [hist EXCEPT !.lastCodec[o.src] = IF success THEN "ok" ELSE "fail"]
  /\ UNCHANGED <<drain, dstPartial, watcher, mode, config, universe, files, srcDirs, dstDirs, queue, eventCache, now,
                 compCache, phase, batch, permits, budget>>

\* a shutdown that returns after watcher.stop(), without the final drain
ExitWithoutDrain ==
  /\ phase \in {"stopping", "drained"}
  /\ Idle
  /\ orphans = {}
  /\ phase' = "exited"
  /\ UNCHANGED <<drain, dstPartial, watcher, mode, config, universe, fsVars, queue, eventCache, now, compCache, batch,
                 permits, orphans, budget, hist>>

\* Application.shutdown returns and asyncio.run closes the loop, after joining
\* the threads of the default executor
Exit ==
  /\ \/ phase = "stopping" /\ queue = <<>> /\ Idle
     \/ phase = "drained"
  /\ orphans = {}
  /\ phase' = "exited"
  /\ UNCHANGED <<drain, dstPartial, watcher, mode, config, universe, fsVars, queue, eventCache, now, compCache, batch,
                 permits, orphans, budget, hist>>

----------------------------------------------------------------------------
(* The environment.                                                        *)

\* the oldest modification time
FirstTime == CHOOSE t \in MTimes : \A u \in MTimes : t <= u

\* modification times a write may leave: the clock does not run backwards, and
\* only the times of root-level files are ever read
WriteTimes(p) ==
  IF DirName(p) = Root THEN {t \in MTimes : t >= files[p].mtime} ELSE {FirstTime}

\* the jobs of the batch once the external writer has touched p
Touched(p) ==
  [i \in 1..Len(batch) |->
     IF batch[i].src = p /\ batch[i].pc # "pending"
     THEN [batch[i] EXCEPT !.touched = TRUE]
     ELSE batch[i]]

\* the external writer creates or rewrites a file of the watched tree
ExtWrite(p, s, t) ==
  /\ phase # "exited"
  /\ budget.writes > 0
  /\ ~IsDir(p)
  /\ files[p] # FileRec(s, t)
  /\ files' = [files EXCEPT ![p] = FileRec(s, t)]
  /\ srcDirs' = srcDirs \cup Prefixes(DirName(p))
  /\ budget' = [budget EXCEPT !.writes = @ - 1]
  /\ batch' = Touched(p)
  /\ UNCHANGED <<drain, dstPartial, watcher, mode, orphans, config, universe, dstFiles, dstDirs, queue, eventCache, now, compCache,
                 phase, permits, hist>>

\* the external writer makes a directory at a path that jobs may name
ExtMkdir(p) ==
  /\ phase # "exited"
  /\ budget.writes > 0
  /\ ~Exists(p)
  /\ files' = [files EXCEPT ![p] = DirRec]
  /\ srcDirs' = srcDirs \cup Prefixes(DirName(p))
  /\ budget' = [budget EXCEPT !.writes = @ - 1]
  /\ batch' = Touched(p)
  /\ UNCHANGED <<drain, dstPartial, watcher, mode, orphans, config, universe, dstFiles, dstDirs, queue, eventCache, now, compCache,
                 phase, permits, hist>>

\* the external writer deletes a file (or the directory) at a source path
ExtDelete(p) ==
  /\ phase # "exited"
  /\ budget.writes > 0
  /\ Exists(p)
  /\ files' = Remove(files, p)
  /\ budget' = [budget EXCEPT !.writes = @ - 1]
  /\ batch' = Touched(p)
  /\ UNCHANGED <<drain, dstPartial, watcher, mode, orphans, config, universe, srcDirs, dstFiles, dstDirs, queue, eventCache, now,
                 compCache, phase, permits, hist>>

----------------------------------------------------------------------------
(* The pipeline specification.                                             *)

\* mode = TaskHandleType.asyncio
DefaultMode == "asyncio"

Configs ==
  [skip_existing_files : BOOLEAN, min_file_size_kb : {1},
   max_concurrent_compressions : {1, 2}]

NoHistory ==
  [codecCalls |-> [p \in SrcPaths |-> 0], dupAtDrain |-> {},
   lastCodec |-> [p \in SrcPaths |-> "none"], pushed |-> <<>>, events |-> <<>>,
   rootSeenEmpty |-> {}, counts |-> [success |-> 0, failed |-> 0],
   noop |-> 0, abandoned |-> {}, sweptNested |-> FALSE,
   lastIsDir |-> FALSE, raised |-> FALSE, recovered |-> FALSE,
   atShutdown |-> <<>>, submitted |-> <<>>]

InitTree ==
  /\ universe \in Universes
  /\ files \in [SrcPaths -> {NoFile} \cup {FileRec(s, t) : s \in Sizes, t \in MTimes}]
  /\ \A p \in SrcPaths :
       /\ p \notin universe => files[p] = NoFile
       /\ files[p].exists => files[p].mtime = FirstTime
  /\ srcDirs = {Root} \cup UNION {Prefixes(DirName(p)) : p \in {q \in SrcPaths : files[q].exists}}
  /\ dstFiles = {}
  /\ dstDirs = {DestRoot} \cup UNION {Prefixes(DirName(d)) : d \in dstFiles}

InitService ==
  /\ queue = <<>>
  /\ eventCache = <<>>
  /\ now = 0
  /\ compCache = {}
  /\ batch = <<>>
  /\ permits = config.max_concurrent_compressions
  /\ orphans = {}
  /\ hist = NoHistory

Init ==
  /\ mode = DefaultMode
  /\ drain = NoDrain
  /\ dstPartial = {}
  /\ watcher = NoWatcher
  /\ config \in Configs
  /\ InitTree
  /\ InitService
  /\ phase = "startup"
  /\ budget = [writes |-> MaxWrites, events |-> MaxEvents, scans |-> MaxScans,
               cap |-> MaxQueue]

Next ==
  \/ ScanInitialFiles
  \/ ProcessQueue
  \/ \E i \in 1..Len(batch) : StartJob(i)
  \/ \E i \in 1..Len(batch), expired \in BOOLEAN : Poll(i, expired)
  \/ \E i \in 1..Len(batch), ok \in BOOLEAN : CodecRun(i, ok)
  \/ \E i \in 1..Len(batch) : CodecReturn(i)
  \/ BatchComplete
  \/ StartWatcher
  \/ PeriodicCleanup
  \/ \E p \in universe, d \in BOOLEAN, t \in 0..MaxTime : OnModified(p, d, t)
  \/ \E p \in universe, s \in Sizes, t \in MTimes : t \in WriteTimes(p) /\ ExtWrite(p, s, t)
  \/ \E p \in universe : ExtMkdir(p)
  \/ \E p \in universe : ExtDelete(p)

Spec == Init /\ [][Next]_vars

----------------------------------------------------------------------------
(* The shutdown specification: the pipeline, and a shutdown signal that    *)
(* may arrive at any moment once the watcher runs.                         *)

InitShutdown ==
  /\ Init
  /\ universe = {FileA, FileB}
  /\ config.skip_existing_files
  /\ config.max_concurrent_compressions = 1

NextShutdown ==
  \/ Next
  \/ Shutdown
  \/ \E o \in orphans, ok \in BOOLEAN : OrphanCodecRun(o, ok)
  \/ Exit

SpecShutdown == InitShutdown /\ [][NextShutdown]_vars

----------------------------------------------------------------------------
(* The error specification: the pipeline without the observer's events,    *)
(* and filesystem calls of process_file that raise OSError (a destination  *)
(* on another device, a directory that may not be written).                *)

\* os.rename has moved the source, and process_file raises after it
DecideRaisesAfterRename(i, made) ==
  LET j == batch[i]
      step == WaitStep(j.polls, Exists(j.src), j.last_size, GetSize(j.src))
  IN
  /\ i \in 1..Len(batch)
  /\ j.pc = "sleeping"
  /\ step = "ready"
  /\ files' = Remove(files, j.src)
  /\ dstFiles' = dstFiles \cup {j.dst}
  /\ dstDirs' = dstDirs \cup Prefixes(DirName(j.dst))
  /\ batch' = [batch EXCEPT ![i] = Finish(j, FALSE, "exception")]
  /\ permits' = permits + 1
  /\ UNCHANGED <<drain, dstPartial, watcher, mode, orphans, config, universe, srcDirs, queue,
                 eventCache, now, compCache, phase, budget, hist>>

\* the file is ready and os.makedirs, os.path.getsize or os.rename raises:
\* `except Exception` returns False; `made` tells whether os.makedirs had
\* made the destination directory before
DecideRaises(i, made) ==
  LET j == batch[i]
      step == WaitStep(j.polls, Exists(j.src), j.last_size, GetSize(j.src))
  IN
  /\ i \in 1..Len(batch)
  /\ j.pc = "sleeping"
  /\ step = "ready"
  /\ dstDirs' = IF made THEN dstDirs \cup Prefixes(DirName(j.dst)) ELSE dstDirs
  /\ batch' = [batch EXCEPT ![i] =
                 Finish([j EXCEPT !.ops = @ \cup (IF made /\ DirName(j.dst) \notin dstDirs
                                                  THEN {"makedirs"} ELSE {})],
                        FALSE, "exception")]
  /\ permits' = permits + 1
  /\ UNCHANGED <<drain, dstPartial, watcher, mode, orphans, config, universe, files, srcDirs,
                 dstFiles, queue, eventCache, now, compCache, phase, budget, hist>>

\* compress() has returned True and os.remove(source_path) raises: the
\* destination is written, the source stays, process_file returns False
RemoveRaises(i) ==
  LET j == batch[i] IN
  /\ i \in 1..Len(batch)
  /\ j.pc = "codec_done"
  /\ j.codec = "ok"
  /\ Exists(j.src)
  /\ batch' = [batch EXCEPT ![i] = Finish(j, FALSE, "exception")]
  /\ permits' = permits + 1
  /\ UNCHANGED <<drain, dstPartial, watcher, mode, orphans, config, universe, fsVars, queue,
                 eventCache, now, compCache, phase, budget, hist>>

InitErrors ==
  /\ Init
  /\ universe = {FileA, FileB}

NextErrors ==
  \/ ScanInitialFiles
  \/ ProcessQueue
  \/ \E i \in 1..Len(batch) : StartJob(i)
  \/ \E i \in 1..Len(batch), expired \in BOOLEAN : Poll(i, expired)
  \/ \E i \in 1..Len(batch), ok \in BOOLEAN : CodecRun(i, ok)
  \/ \E i \in 1..Len(batch) : CodecReturn(i)
  \/ BatchComplete
  \/ StartWatcher
  \/ PeriodicCleanup
  \/ \E p \in universe, s \in Sizes, t \in MTimes : t \in WriteTimes(p) /\ ExtWrite(p, s, t)
  \/ \E p \in universe : ExtDelete(p)
  \/ \E i \in 1..Len(batch), made \in BOOLEAN : DecideRaises(i, made)
  \/ \E i \in 1..Len(batch) : RemoveRaises(i)

SpecErrors == InitErrors /\ [][NextErrors]_vars

----------------------------------------------------------------------------
(* The debounce specification: the observer's thread delivers a burst of   *)
(* notifications to FileEventHandler; nothing drains the queue meanwhile.  *)

BurstPaths == {FileA, FileB, FileC, FileE}

InitEvents ==
  /\ mode = DefaultMode
  /\ drain = NoDrain
  /\ dstPartial = {}
  /\ watcher = [cleanup_task |-> "none", observer |-> "started"]
  /\ config \in {c \in Configs : c.skip_existing_files /\ c.max_concurrent_compressions = 1}
  /\ universe = BurstPaths
  /\ files = [p \in SrcPaths |->
                IF p \in BurstPaths THEN FileRec(1024, FirstTime) ELSE NoFile]
  /\ srcDirs = AllSrcDirs
  /\ dstFiles = {}
  /\ dstDirs = {DestRoot}
  /\ InitService
  /\ phase = "watching"
  /\ budget = [writes |-> 0, events |-> MaxBurst, scans |-> 0, cap |-> MaxBurst]

NextEvents ==
  \E p \in universe, d \in BOOLEAN, t \in 0..MaxTime : OnModified(p, d, t)

SpecEvents == InitEvents /\ [][NextEvents]_vars

----------------------------------------------------------------------------
(* The task handler of the first pipeline: task_handler.handle_tasks runs  *)
(* file_handler.handle_file for the jobs of a queue, in the way             *)
(* task_handler.mode names.                                                *)

\* class TaskHandleType
Modes == {"asyncio", "bounded_semaphore", "multi_process", "aiomultiprocess",
          "process_pool_executor"}

\* jobs the queue handed to handle_tasks may hold
MaxTasks == 2

\* positional parameters of the worker functions, and the arguments a map call
\* passes for each item: pool.map passes the item, executor.map one argument
\* from each of its two iterables
ProcessTaskParams == 2
HandleTaskParams == 1
PoolMapPassed == 1
ExecutorMapPassed == 2

\* calling a function of `params` positional parameters with `passed`
\* arguments raises TypeError unless the numbers agree
CallRaises(params, passed) == params # passed

\* the task made for one queued pair; handle_file has not begun
LegacyTask(pr) ==
  [src |-> pr.src, dst |-> pr.dst, pc |-> "pending", runs |-> 0, branch |-> "none",
   last_size |-> -1, polls |-> 0]

\* while not queue.empty(): tasks.append(queue.get_nowait())
DrainTasks(q) == [i \in 1..Len(q) |-> LegacyTask(q[i])]

\* the handlers that run handle_file in coroutines or workers: every drained
\* pair becomes a task, which then runs on its own
RunTasks(m) ==
  /\ phase = "tasks"
  /\ mode = m
  /\ queue' = <<>>
  /\ batch' = DrainTasks(queue)
  /\ phase' = "handling"
  /\ UNCHANGED <<drain, dstPartial, watcher, mode, config, universe, fsVars, eventCache, now, compCache, permits,
                 orphans, budget, hist>>

\* a map call whose worker raises for every item: nothing runs, and the first
\* error comes out of the map call when there is an item at all
RunTasksOrRaise(m, raises) ==
  IF raises
  THEN /\ phase = "tasks"
       /\ mode = m
       /\ queue' = <<>>
       /\ batch' = [i \in 1..Len(queue) |->
                      [LegacyTask(queue[i]) EXCEPT !.pc = "done", !.branch = "type_error"]]
       /\ phase' = IF queue = <<>> THEN "returned" ELSE "raised"
       /\ UNCHANGED <<drain, dstPartial, watcher, mode, config, universe, fsVars, eventCache, now, compCache, permits,
                      orphans, budget, hist>>
  ELSE RunTasks(m)

HandleTasksAsyncio == RunTasks("asyncio")
HandleTasksSemaphore == RunTasks("bounded_semaphore")
HandleTasksMultiProcess ==
  RunTasksOrRaise("multi_process", CallRaises(ProcessTaskParams, PoolMapPassed))
HandleTasksAiomultiprocess ==
  RunTasksOrRaise("aiomultiprocess", CallRaises(HandleTaskParams, PoolMapPassed))
HandleTasksProcessPoolExecutor ==
  RunTasksOrRaise("process_pool_executor", CallRaises(ProcessTaskParams, ExecutorMapPassed))

\* raise Exception('Invalid mode')
HandleTasksInvalid ==
  /\ phase = "tasks"
  /\ mode \notin Modes
  /\ phase' = "raised"
  /\ UNCHANGED <<drain, dstPartial, watcher, mode, config, universe, fsVars, queue, eventCache, now, compCache, batch,
                 permits, orphans, budget, hist>>

\* one iteration of the loop of file_handler.wait_for_file_ready: a size that
\* did not change, zero included, ends the wait
LegacyWaitStep(polls, exists, last_size, current_size) ==
  IF ~(polls < TimeoutPolls) THEN "timeout"
  ELSE IF ~exists THEN "vanished"
  ELSE IF current_size = last_size THEN "ready"
  ELSE "sleep"

LegacyDone(t, branch) == [t EXCEPT !.pc = "done", !.branch = branch]

\* handle_file begins: the checks of the source and the first iteration of
\* wait_for_file_ready, up to its sleep
LegacyStart(i) ==
  LET t == [batch[i] EXCEPT !.runs = @ + 1] IN
  /\ phase = "handling"
  /\ i \in 1..Len(batch)
  /\ batch[i].pc = "pending"
  /\ batch' = [batch EXCEPT ![i] =
       IF ~Exists(t.src) THEN LegacyDone(t, "missing")
       ELSE IF IsDir(t.src) THEN LegacyDone(t, "isdir")
       ELSE [t EXCEPT !.pc = "sleeping", !.last_size = GetSize(t.src), !.polls = 1]]
  /\ UNCHANGED <<drain, dstPartial, watcher, mode, config, universe, fsVars, queue, eventCache, now, compCache, phase,
                 permits, orphans, budget, hist>>

\* handle_file wakes from the sleep of wait_for_file_ready and, when the file
\* is ready, goes on to the call of async_compress_image; `hit` tells whether
\* compression_cache, as this process sees it, holds the key of the task
LegacyWake(i, hit) ==
  LET t == batch[i]
      src == t.src
      dst == t.dst
      step == LegacyWaitStep(t.polls, Exists(src), t.last_size, GetSize(src))
      moved == Remove(files, src)
  IN
  /\ phase = "handling"
  /\ i \in 1..Len(batch)
  /\ t.pc = "sleeping"
  /\ hit => <<src, dst>> \in compCache
  /\ (mode \in {"asyncio", "bounded_semaphore"} /\ <<src, dst>> \in compCache) => hit
  /\ CASE step \in {"timeout", "vanished"} ->
            /\ batch' = [batch EXCEPT ![i] = LegacyDone(t, "not_ready")]
            /\ UNCHANGED <<fsVars, compCache>>
       [] step = "sleep" ->
            /\ batch' = [batch EXCEPT ![i] =
                           [t EXCEPT !.last_size = GetSize(src), !.polls = @ + 1]]
            /\ UNCHANGED <<fsVars, compCache>>
       [] step = "ready" ->
            /\ dstDirs' = dstDirs \cup Prefixes(DirName(dst))
            /\ IF src.ext = ".webp" \/ GetSize(src) < config.min_file_size_kb * 1024
               THEN \* os.rename, return
                    /\ files' = moved
                    /\ dstFiles' = dstFiles \cup {dst}
                    /\ batch' = [batch EXCEPT ![i] = LegacyDone(t, "moved")]
                    /\ UNCHANGED <<srcDirs, compCache>>
               ELSE IF src.ext \notin {".jpg", ".jpeg", ".png"}
               THEN \* os.rename, then the directory cleanup
                    /\ files' = moved
                    /\ dstFiles' = dstFiles \cup {dst}
                    /\ srcDirs' = CleanupEmptyDirectory(moved, srcDirs, src)
                    /\ batch' = [batch EXCEPT ![i] = LegacyDone(t, "moved")]
                    /\ UNCHANGED compCache
               ELSE IF hit
               THEN \* async_compress_image returns at once; os.remove follows
                    /\ files' = moved
                    /\ srcDirs' = CleanupEmptyDirectory(moved, srcDirs, src)
                    /\ batch' = [batch EXCEPT ![i] = LegacyDone(t, "cached")]
                    /\ UNCHANGED <<dstFiles, compCache>>
               ELSE /\ compCache' = compCache \cup {<<src, dst>>}
                    /\ batch' = [batch EXCEPT ![i] = [t EXCEPT !.pc = "codec"]]
                    /\ UNCHANGED <<files, srcDirs, dstFiles>>
  /\ UNCHANGED <<drain, dstPartial, watcher, mode, config, universe, queue, eventCache, now, phase, permits, orphans,
                 budget, hist>>

\* compress_image ends on its executor thread and handle_file resumes: an
\* exception of the codec ends handle_file, any return value is followed by
\* os.remove and the directory cleanup
LegacyCodecReturn(i, outcome) ==
  LET t == batch[i]
      src == t.src
      removed == Remove(files, src)
  IN
  /\ phase = "handling"
  /\ i \in 1..Len(batch)
  /\ t.pc = "codec"
  /\ ~Exists(src) => outcome = "raised"
  /\ dstDirs' = dstDirs
  /\ IF outcome = "raised"
     THEN /\ batch' = [batch EXCEPT ![i] = LegacyDone(t, "compress_error")]
          /\ UNCHANGED <<files, srcDirs, dstFiles>>
     ELSE /\ dstFiles' = IF outcome = "written"
                         THEN dstFiles \cup {EnsureWebpExtension(t.dst)}
                         ELSE dstFiles
          /\ files' = removed
          /\ srcDirs' = CleanupEmptyDirectory(removed, srcDirs, src)
          /\ batch' = [batch EXCEPT ![i] = LegacyDone(t, outcome)]
  /\ UNCHANGED <<drain, dstPartial, watcher, mode, config, universe, queue, eventCache, now, compCache, phase, permits,
                 orphans, budget, hist>>

\* gather, or the map call, returns and handle_tasks with it
TasksReturn ==
  /\ phase = "handling"
  /\ \A i \in 1..Len(batch) : batch[i].pc = "done"
  /\ phase' = "returned"
  /\ UNCHANGED <<drain, dstPartial, watcher, mode, config, universe, fsVars, queue, eventCache, now, compCache, batch,
                 permits, orphans, budget, hist>>

TaskPaths == {FileA, FileD}

\* the pairs a queue may hold for a source: its mirror destination, as the
\* callers of handle_tasks compute it for a file below the root
TaskPair(p) == [src |-> p, dst |-> MirrorDest(p)]

TaskQueues ==
  UNION {[1..n -> {TaskPair(p) : p \in TaskPaths}] : n \in 0..MaxTasks}

InitTasks ==
  /\ mode \in Modes \cup {"other"}
  /\ drain = NoDrain
  /\ dstPartial = {}
  /\ watcher = NoWatcher
  /\ config \in {c \in Configs : c.skip_existing_files /\ c.max_concurrent_compressions = 1}
  /\ universe = TaskPaths
  /\ files \in [SrcPaths -> {NoFile} \cup {FileRec(sz, FirstTime) : sz \in Sizes}]
  /\ \A p \in SrcPaths : p \notin universe => files[p] = NoFile
  /\ srcDirs = {Root} \cup UNION {Prefixes(DirName(p)) : p \in {q \in SrcPaths : files[q].exists}}
  /\ dstFiles = {}
  /\ dstDirs = {DestRoot}
  /\ queue \in TaskQueues
  /\ eventCache = <<>>
  /\ now = 0
  /\ compCache = {}
  /\ batch = <<>>
  /\ permits = config.max_concurrent_compressions
  /\ orphans = {}
  /\ hist = NoHistory
  /\ phase = "tasks"
  /\ budget = [writes |-> 0, events |-> 0, scans |-> 0, cap |-> MaxTasks]

NextTasks ==
  \/ HandleTasksAsyncio
  \/ HandleTasksSemaphore
  \/ HandleTasksMultiProcess
  \/ HandleTasksAiomultiprocess
  \/ HandleTasksProcessPoolExecutor
  \/ HandleTasksInvalid
  \/ \E i \in 1..Len(batch) : LegacyStart(i)
  \/ \E i \in 1..Len(batch), hit \in BOOLEAN : LegacyWake(i, hit)
  \/ \E i \in 1..Len(batch), outcome \in {"written", "refused", "raised"} :
       LegacyCodecReturn(i, outcome)
  \/ TasksReturn

SpecTasks == InitTasks /\ [][NextTasks]_vars

----------------------------------------------------------------------------
(* The service left to itself: no notification arrives and no external     *)
(* writer touches the tree, the event loop keeps running every task that   *)
(* can run, and the periodic task wakes up after every interval.           *)

\* periodic_cleanup: await asyncio.sleep(interval) returns for the next pass
NextInterval ==
  /\ phase = "running"
  /\ budget.scans = 0
  /\ budget' = [budget EXCEPT !.scans = MaxScans]
  /\ UNCHANGED <<drain, dstPartial, watcher, mode, orphans, config, universe, fsVars, queue, eventCache, now, compCache,
                 phase, batch, permits, hist>>

InitLive ==
  /\ mode = DefaultMode
  /\ drain = NoDrain
  /\ dstPartial = {}
  /\ watcher = NoWatcher
  /\ config \in Configs
  /\ InitTree
  /\ InitService
  /\ phase = "startup"
  /\ budget = [writes |-> 0, events |-> 0, scans |-> MaxScans, cap |-> MaxQueue]

\* the codec may fail on its first run for a source and succeeds afterwards
NextLive ==
  \/ ScanInitialFiles
  \/ ProcessQueue
  \/ \E i \in 1..Len(batch) : StartJob(i)
  \/ \E i \in 1..Len(batch), expired \in BOOLEAN : Poll(i, expired)
  \/ \E i \in 1..Len(batch), ok \in BOOLEAN :
        (ok \/ hist.lastCodec[batch[i].src] = "none") /\ CodecRun(i, ok)
  \/ \E i \in 1..Len(batch) : CodecReturn(i)
  \/ BatchComplete
  \/ StartWatcher
  \/ PeriodicCleanup
  \/ NextInterval

Fairness ==
  /\ WF_vars(ScanInitialFiles)
  /\ WF_vars(ProcessQueue)
  /\ WF_vars(\E i \in 1..Len(batch) : StartJob(i))
  /\ WF_vars(\E i \in 1..Len(batch), expired \in BOOLEAN : Poll(i, expired))
  /\ WF_vars(\E i \in 1..Len(batch), ok \in BOOLEAN :
               (ok \/ hist.lastCodec[batch[i].src] = "none") /\ CodecRun(i, ok))
  /\ WF_vars(\E i \in 1..Len(batch) : CodecReturn(i))
  /\ WF_vars(BatchComplete)
  /\ WF_vars(StartWatcher)
  /\ WF_vars(PeriodicCleanup)
  /\ WF_vars(NextInterval)

\* the service left to itself, with periodic passes that may raise and a
\* shutdown signal that cancels the periodic task
NextPeriodic ==
  \/ NextLive
  \/ \E n \in 0..Len(WalkJobs) : PeriodicCleanupRaises(n)
  \/ Shutdown

SpecPeriodic == InitLive /\ [][NextPeriodic]_vars

SpecLive == InitLive /\ [][NextLive]_vars /\ Fairness

----------------------------------------------------------------------------
(* The codec at work.  _compress_sync runs on an executor thread: pyvips    *)
(* loads the source and write_to_file opens dest_path itself and streams    *)
(* the image into it, so the destination exists, unfinished, from the open  *)
(* to the end of the write.  A write that fails has left what it wrote, or  *)
(* nothing: the code removes nothing.  CodecRun above is such a run seen    *)
(* from the job that awaits it; here two sources of one batch share their   *)
(* .webp destination and see each other's runs.                             *)

\* the destination files that are not whole: being written, or left unfinished
Incomplete ==
  dstPartial \cup {EnsureWebpExtension(batch[i].dst) :
                     i \in {k \in 1..Len(batch) : batch[k].pc = "writing"}}

\* _compress_sync up to write_to_file: the source is gone or cannot be loaded
\* (return False), or the destination is opened for writing
CodecOpen(i, ok) ==
  LET j == batch[i]
      opened == ok /\ Exists(j.src)
  IN
  /\ i \in 1..Len(batch)
  /\ j.pc = "codec"
  /\ batch' = [batch EXCEPT ![i] =
                 IF opened THEN [j EXCEPT !.pc = "writing"]
                 ELSE [j EXCEPT !.pc = "codec_done", !.codec = "fail"]]
  /\ dstFiles' = IF opened THEN dstFiles \cup {EnsureWebpExtension(j.dst)} ELSE dstFiles
  /\ dstPartial' = IF opened THEN dstPartial \ {EnsureWebpExtension(j.dst)} ELSE dstPartial
  /\ hist' = IF opened THEN hist ELSE [hist EXCEPT !.lastCodec[j.src] = "fail"]
  /\ UNCHANGED <<drain, watcher, mode, orphans, config, universe, files, srcDirs, dstDirs, queue,
                 eventCache, now, compCache, phase, permits, budget>>

\* write_to_file ends: the file is whole (return True), or the write failed
\* (return False) and the unfinished file is left, or is gone
CodecClose(i, outcome) ==
  LET j == batch[i]
      d == EnsureWebpExtension(j.dst)
  IN
  /\ i \in 1..Len(batch)
  /\ j.pc = "writing"
  /\ batch' = [batch EXCEPT ![i] =
                 [j EXCEPT !.pc = "codec_done",
                           !.codec = IF outcome = "ok" THEN "ok" ELSE "fail"]]
  /\ dstFiles' = IF outcome = "gone" THEN dstFiles \ {d} ELSE dstFiles
  /\ dstPartial' = IF outcome = "left" THEN dstPartial \cup {d} ELSE dstPartial \ {d}
  /\ hist' = [hist EXCEPT !.lastCodec[j.src] = IF outcome = "ok" THEN "ok" ELSE "fail"]
  /\ UNCHANGED <<drain, watcher, mode, orphans, config, universe, files, srcDirs, dstDirs, queue,
                 eventCache, now, compCache, phase, permits, budget>>

CodecPaths == {FileB, FileD, FileF}

\* no task of the batch is ready to take a permit: the loop runs the tasks
\* that are ready before the timers that have come due
NoJobReady == ~(permits > 0 /\ \E i \in 1..Len(batch) : batch[i].pc = "pending")

InitCodec ==
  /\ mode = DefaultMode
  /\ drain = NoDrain
  /\ dstPartial = {}
  /\ watcher = NoWatcher
  /\ config \in Configs
  /\ universe = CodecPaths
  /\ files \in [SrcPaths -> {NoFile, FileRec(1024, FirstTime)}]
  /\ \A p \in SrcPaths : p \notin universe => files[p] = NoFile
  /\ srcDirs = {Root} \cup UNION {Prefixes(DirName(p)) : p \in {q \in SrcPaths : files[q].exists}}
  /\ dstFiles = {}
  /\ dstDirs = {DestRoot}
  /\ InitService
  /\ phase = "startup"
  /\ budget = [writes |-> 0, events |-> 0, scans |-> MaxScans, cap |-> MaxQueue]

NextCodec ==
  \/ ScanInitialFiles
  \/ ProcessQueue
  \/ \E i \in 1..Len(batch) : StartJob(i)
  \/ \E i \in 1..Len(batch), expired \in BOOLEAN : NoJobReady /\ Poll(i, expired)
  \/ \E i \in 1..Len(batch), ok \in BOOLEAN : CodecOpen(i, ok)
  \/ \E i \in 1..Len(batch), outcome \in {"ok", "left", "gone"} : CodecClose(i, outcome)
  \/ \E i \in 1..Len(batch) : CodecReturn(i)
  \/ BatchComplete
  \/ StartWatcher
  \/ PeriodicCleanup

SpecCodec == InitCodec /\ [][NextCodec]_vars

----------------------------------------------------------------------------
(* The work queue between the observer's thread and the event loop.  The   *)
(* callback of the observer calls put_nowait on its own thread, while      *)
(* process_queue runs its drain loop on the event-loop thread.  The steps  *)
(* are the operations on the deque of the queue (append, popleft and the   *)
(* length test of empty()), each of which the interpreter runs as a whole. *)
(* An item carries, for the properties only, the number of its push and    *)
(* the position the drain loop was at when it was pushed.                  *)

MaxPushes == 3

QueuePaths == {FileA, FileB}

Item(p) == [src |-> p, dst |-> MirrorDest(p), n |-> Len(hist.pushed) + 1, at |-> drain.pc]

\* a popleft that leaves the item in the deque
PopLeftKeeps(q) == q

\* what get_nowait leaves in the queue
PopLeft(q) == Tail(q)

\* FileEventHandler.on_modified on the observer's thread: queue.put_nowait
ThreadPut(p) ==
  /\ watcher.observer = "started"
  /\ Len(hist.pushed) < MaxPushes
  /\ queue' = Append(queue, Item(p))
  /\ hist' = [hist EXCEPT !.pushed = Append(@, <<now, p>>)]
  /\ UNCHANGED <<drain, dstPartial, watcher, mode, config, universe, fsVars, eventCache, now,
                 compCache, phase, batch, permits, orphans, budget>>

\* periodic_cleanup on the event-loop thread: queue.put_nowait; the loop runs
\* it only while process_queue is not inside its drain loop
ScannerPut(p) ==
  /\ watcher.cleanup_task = "sleeping"
  /\ drain.pc = "idle"
  /\ Len(hist.pushed) < MaxPushes
  /\ queue' = Append(queue, Item(p))
  /\ hist' = [hist EXCEPT !.pushed = Append(@, <<now, p>>)]
  /\ UNCHANGED <<drain, dstPartial, watcher, mode, config, universe, fsVars, eventCache, now,
                 compCache, phase, batch, permits, orphans, budget>>

\* process_queue: if self.queue.empty(): return
DrainEnter ==
  /\ drain.pc = "idle"
  /\ queue # <<>>
  /\ drain' = [drain EXCEPT !.pc = "while"]
  /\ UNCHANGED <<dstPartial, watcher, mode, config, universe, fsVars, queue, eventCache, now,
                 compCache, phase, batch, permits, orphans, budget, hist>>

\* while not self.queue.empty()
DrainWhile ==
  /\ drain.pc = "while"
  /\ drain' = [drain EXCEPT !.pc = IF queue = <<>> THEN "submit" ELSE "get"]
  /\ UNCHANGED <<dstPartial, watcher, mode, config, universe, fsVars, queue, eventCache, now,
                 compCache, phase, batch, permits, orphans, budget, hist>>

\* file_pair = self.queue.get_nowait(); file_pairs.append(file_pair);
\* QueueEmpty leaves the loop
DrainGet ==
  /\ drain.pc = "get"
  /\ IF queue = <<>>
     THEN /\ drain' = [drain EXCEPT !.pc = "submit"]
          /\ UNCHANGED queue
     ELSE /\ drain' = [drain EXCEPT !.pc = "while",
                                     !.file_pairs = Append(@, Head(queue))]
          /\ queue' = PopLeft(queue)
  /\ UNCHANGED <<dstPartial, watcher, mode, config, universe, fsVars, eventCache, now,
                 compCache, phase, batch, permits, orphans, budget, hist>>

\* the pairs collected go to process_batch and process_queue returns
DrainSubmit ==
  /\ drain.pc = "submit"
  /\ drain' = [pc |-> "idle", file_pairs |-> <<>>,
               returned |-> drain.returned \o drain.file_pairs]
  /\ UNCHANGED <<dstPartial, watcher, mode, config, universe, fsVars, queue, eventCache, now,
                 compCache, phase, batch, permits, orphans, budget, hist>>

InitQueue ==
  /\ mode = DefaultMode
  /\ drain = NoDrain
  /\ dstPartial = {}
  /\ watcher = [cleanup_task |-> "sleeping", observer |-> "started"]
  /\ config \in Configs
  /\ universe = QueuePaths
  /\ files = [p \in SrcPaths |-> IF p \in QueuePaths THEN FileRec(1024, FirstTime) ELSE NoFile]
  /\ srcDirs = AllSrcDirs
  /\ dstFiles = {}
  /\ dstDirs = {DestRoot}
  /\ InitService
  /\ phase = "running"
  /\ budget = [writes |-> 0, events |-> 0, scans |-> 0, cap |-> MaxPushes]

NextQueue ==
  \/ \E p \in QueuePaths : ThreadPut(p)
  \/ \E p \in QueuePaths : ScannerPut(p)
  \/ DrainEnter
  \/ DrainWhile
  \/ DrainGet
  \/ DrainSubmit

SpecQueue == InitQueue /\ [][NextQueue]_vars

----------------------------------------------------------------------------
(* Configuration: application.create_app loads a Config from the           *)
(* environment, validates it and builds the components from it.            *)

\* the configurations from_env may return: whether each path exists, and the
\* values around every limit validate tests
LoadedConfigs ==
  [uncompressed_exists : BOOLEAN, compressed_exists : BOOLEAN,
   cleanup_interval_seconds : {-1, 0, 1}, min_file_size_kb : {-1, 0, 1},
   compression_quality : {0, 1, 100, 101}, max_resolution : {0, 1},
   log_level : {"INFO", "DEBUG", "VERBOSE"}, max_concurrent_compressions : {-1, 0, 1, 2},
   skip_existing_files : {TRUE}]

ValidLevels == {"DEBUG", "INFO", "WARNING", "ERROR", "CRITICAL"}

\* a validate that does not look at the performance settings
ValidateWithoutPool(c) ==
  IF ~c.uncompressed_exists THEN "uncompressed_path"
  ELSE IF ~c.compressed_exists THEN "compressed_path"
  ELSE IF c.cleanup_interval_seconds <= 0 THEN "cleanup_interval_seconds"
  ELSE IF c.min_file_size_kb < 0 THEN "min_file_size_kb"
  ELSE IF ~(0 < c.compression_quality /\ c.compression_quality <= 100)
       THEN "compression_quality"
  ELSE IF c.max_resolution <= 0 THEN "max_resolution"
  ELSE IF c.log_level \notin ValidLevels THEN "log_level"
  ELSE "ok"

\* Config.validate: the field its ConfigurationError names, or "ok"
Validate(c) ==
  IF ~c.uncompressed_exists THEN "uncompressed_path"
  ELSE IF ~c.compressed_exists THEN "compressed_path"
  ELSE IF c.cleanup_interval_seconds <= 0 THEN "cleanup_interval_seconds"
  ELSE IF c.min_file_size_kb < 0 THEN "min_file_size_kb"
  ELSE IF ~(0 < c.compression_quality /\ c.compression_quality <= 100)
       THEN "compression_quality"
  ELSE IF c.max_resolution <= 0 THEN "max_resolution"
  ELSE IF c.log_level \notin ValidLevels THEN "log_level"
  ELSE IF c.max_concurrent_compressions <= 0 THEN "max_concurrent_compressions"
  ELSE "ok"

\* create_app: config.validate() returns or raises
ConfigValidate ==
  /\ phase = "loaded"
  /\ phase' = IF Validate(config) = "ok" THEN "validated" ELSE "rejected"
  /\ UNCHANGED <<drain, dstPartial, watcher, mode, config, universe, fsVars, queue, eventCache, now, compCache, batch,
                 permits, orphans, budget, hist>>

\* Application._setup_components: FileProcessor makes its semaphore
SetupComponents ==
  /\ phase = "validated"
  /\ permits' = config.max_concurrent_compressions
  /\ phase' = "set_up"
  /\ UNCHANGED <<drain, dstPartial, watcher, mode, config, universe, fsVars, queue, eventCache, now, compCache, batch,
                 orphans, budget, hist>>

InitConfig ==
  /\ mode = DefaultMode
  /\ drain = NoDrain
  /\ dstPartial = {}
  /\ watcher = NoWatcher
  /\ config \in LoadedConfigs
  /\ universe = {}
  /\ files = [p \in SrcPaths |-> NoFile]
  /\ srcDirs = IF config.uncompressed_exists THEN {Root} ELSE {}
  /\ dstFiles = {}
  /\ dstDirs = IF config.compressed_exists THEN {DestRoot} ELSE {}
  /\ queue = <<>>
  /\ eventCache = <<>>
  /\ now = 0
  /\ compCache = {}
  /\ batch = <<>>
  /\ permits = 0
  /\ orphans = {}
  /\ hist = NoHistory
  /\ phase = "loaded"
  /\ budget = [writes |-> 0, events |-> 0, scans |-> 0, cap |-> 0]

NextConfig == ConfigValidate \/ SetupComponents

SpecConfig == InitConfig /\ [][NextConfig]_vars

----------------------------------------------------------------------------
(* Properties.                                                             *)

Jobs == {batch[i] : i \in 1..Len(batch)}
Done == {j \in Jobs : j.pc = "done"}

\* C1: within one drain cycle the codec is invoked at most once for a source,
\* however many jobs for that source the queue held when the cycle began.
C1_CodecAtMostOncePerCycle ==
  \A p \in SrcPaths : hist.codecCalls[p] <= 1

\* C1 witness: the queue held several jobs for one source at the drain and the
\* codec has been invoked for it in this cycle.
C1_Witness ==
  \E p \in hist.dupAtDrain : hist.codecCalls[p] = 1

\* the jobs whose wait_for_file_ready has returned True
PassedWait(j) ==
  \/ j.pc \in {"codec", "codec_done"}
  \/ j.pc = "done" /\ j.branch \in {"webp", "move", "transform", "cached"}

\* config.min_file_size_kb * 1024, the threshold should_compress compares with
MinBytes == config.min_file_size_kb * 1024

\* C2: a job that called the codec ends True with its source removed when the
\* codec succeeded, and ends False, having neither removed nor renamed its
\* source, when the codec failed: the source is then still what the job found
\* (unless the external writer touched it meanwhile).
C2_TransformOutcome ==
  \A j \in Done : j.branch = "transform" =>
    IF j.codec = "ok"
    THEN j.result /\ (~j.touched => "remove" \in j.ops /\ ~Exists(j.src))
    ELSE /\ ~j.result
         /\ j.ops \cap {"remove", "rename"} = {}
         /\ ~j.touched => j.start.exists /\ files[j.src] = j.start

\* C2 witness: one batch holds a job whose codec succeeded and whose source is
\* gone, and a job whose codec failed and whose source is still there.
C2_Witness ==
  \E j1 \in Done, j2 \in Done :
    /\ j1.branch = "transform" /\ j1.codec = "ok" /\ ~j1.touched /\ ~Exists(j1.src)
    /\ j2.branch = "transform" /\ j2.codec = "fail" /\ ~j2.touched /\ Exists(j2.src)

\* C3: a job for a source whose latest codec run failed, once it reaches the
\* decision to compress, invokes the codec again, and it removes the source
\* only if its own codec run succeeded.
C3_FailedCodecIsRetried ==
  \A j \in Done :
    (hist.lastCodec[j.src] = "fail" /\ j.branch \in {"cached", "transform"}) =>
      /\ j.codec # "none"
      /\ "remove" \in j.ops => j.codec = "ok"

\* C4 (as claimed): no (second, path) key is pushed to the queue twice,
\* whatever other notifications come in between.
C4_OneJobPerBucket ==
  \A m \in DOMAIN hist.pushed, n \in DOMAIN hist.pushed :
    hist.pushed[m] = hist.pushed[n] => m = n

\* C4 (amended): two pushes of the same (second, path) key are separated by at
\* least EventCacheMaxSize pushes of other keys: the key is pushed once for as
\* long as it has not been evicted from the event cache.
C4_OneJobUntilEvicted ==
  \A m \in DOMAIN hist.pushed, n \in DOMAIN hist.pushed :
    (m < n /\ hist.pushed[m] = hist.pushed[n]) => n - m > EventCacheMaxSize

\* C4 witness: a path was notified twice in one second with a notification for
\* another path in between, and one job was pushed for it.
C4_Witness ==
  \E a \in DOMAIN hist.events, b \in DOMAIN hist.events, c \in DOMAIN hist.events :
    /\ a < b /\ b < c
    /\ hist.events[a] = hist.events[c]
    /\ hist.events[b] # hist.events[a]
    /\ Cardinality({m \in DOMAIN hist.pushed : hist.pushed[m] = hist.events[a]}) = 1

\* C5: with skip-existing enabled, a job that finds a regular file at its source
\* and dest_path or its .webp variant existing removes the source and returns True
\* without invoking the codec.
C5_SkipExisting ==
  \A j \in Jobs :
    (/\ j.pc # "pending" /\ config.skip_existing_files /\ j.destSeen
     /\ j.start.exists /\ ~j.start.isdir) =>
      /\ j.pc = "done" /\ j.branch = "skip" /\ j.result
      /\ j.codec = "none"
      /\ j.ops = {"remove"}
      /\ ~j.touched => ~Exists(j.src)

\* C5 witness: a job skipped an existing source because only the .webp variant
\* of its destination existed.
C5_Witness ==
  \E j \in Done :
    /\ config.skip_existing_files /\ j.destSeen /\ j.start.exists /\ ~j.start.isdir
    /\ j.dst \notin dstFiles
    /\ j.branch = "skip" /\ ~Exists(j.src)

\* C6: a run of process_file that finds its source gone ends in its first step,
\* invokes neither the codec nor rename or remove, and leaves the watched tree,
\* the destination tree and the compressor's cache as they were.
C6_SecondRunIsNoOp ==
  [][\A i \in DOMAIN batch :
       (/\ i \in DOMAIN batch'
        /\ batch[i].pc = "pending" /\ batch'[i].pc # "pending"
        /\ ~Exists(batch[i].src)) =>
         /\ batch'[i].pc = "done"
         /\ batch'[i].ops = {} /\ batch'[i].codec = "none"
         /\ UNCHANGED <<fsVars, compCache>>]_vars

\* C6 witness: a job found its source gone and its destination present: an
\* earlier run had moved the file.
C6_Witness ==
  \E j \in Done : j.branch = "missing" /\ j.destSeen /\ j.ops = {}

\* C7: a job whose every poll read a size different from the poll before, up
\* to the timeout, ends False with no filesystem call made: nothing removed,
\* renamed or created, the codec not invoked.
C7_UnstableFileLeftAlone ==
  \A j \in Jobs :
    (j.alldiff /\ j.polls = TimeoutPolls /\ j.pc # "sleeping") =>
      /\ j.pc = "done" /\ ~j.result /\ j.branch = "timeout"
      /\ j.ops = {} /\ j.codec = "none"

\* C7 witness: a job timed out on a file the writer kept changing.
C7_Witness ==
  \E j \in Done :
    j.alldiff /\ j.polls = TimeoutPolls /\ j.touched /\ j.branch = "timeout" /\ Exists(j.src)

\* C8: the first poll never ends the wait with True; a later poll ends it
\* with True exactly when the file exists and its size is positive and equal to
\* the size of the poll before, and ends it with False when the file is gone.
C8_WaitForFileReady ==
  [][\A i \in DOMAIN batch : i \in DOMAIN batch' =>
       LET j == batch[i]
           j2 == batch'[i]
           current_size == files[j.src].size
           stable == files[j.src].exists /\ current_size = j.last_size /\ current_size > 0
       IN /\ j.pc = "pending" => ~PassedWait(j2)
          /\ (/\ j.pc = "sleeping" /\ j.polls < TimeoutPolls
              /\ (j2.pc # "sleeping" \/ j2.polls # j.polls)) =>
               /\ PassedWait(j2) <=> stable
               /\ ~files[j.src].exists =>
                    j2.pc = "done" /\ ~j2.result /\ j2.branch = "vanished"]_vars

\* C8 witness: a job passed the wait on its second poll or later, with a
\* positive size.
C8_Witness ==
  \E j \in Jobs : PassedWait(j) /\ j.polls >= 1 /\ j.last_size > 0

C10_EmptyParentRemoved ==
  [][\A i \in DOMAIN batch : i \in DOMAIN batch' =>
       LET j2 == batch'[i]
           parent_dir == DirName(j2.src)
       IN (/\ batch[i].pc # "done" /\ j2.pc = "done" /\ j2.result
           /\ j2.branch \in {"move", "webp", "transform", "cached"}
           /\ NormPath(parent_dir) # NormPath(Root)
           /\ ListDirEmpty(files', srcDirs', parent_dir)) =>
            parent_dir \notin srcDirs']_vars

\* C11: the watched root directory exists in every state: neither the per-job
\* cleanup nor the periodic bottom-up cleanup removes it, even when it is empty.
C11_RootNeverRemoved == Root \in srcDirs

\* C11 witness: a per-job cleanup and a periodic cleanup have both met the
\* watched root empty, and the root is still there.
C11_Witness ==
  /\ hist.rootSeenEmpty = {"job", "periodic"}
  /\ ListDirEmpty(files, srcDirs, Root)
  /\ Root \in srcDirs

\* the jobs a step appends to the work queue
Pushed(k) == k \in DOMAIN queue' /\ k > Len(queue)

\* C12: every job appended to the queue, by the event handler, the startup scan
\* or the periodic scan, for a regular file directly in the watched root
\* has the destination dest_root/YYYY-MM/basename(source), YYYY-MM being the
\* month of the modification time the file has when the job is appended.
C12_RootFileGoesToMonth ==
  [][\A k \in DOMAIN queue' :
       LET src == queue'[k].src IN
       (Pushed(k) /\ src.dir = Root /\ files[src].exists /\ ~files[src].isdir) =>
         queue'[k].dst = [dir |-> DestRoot \o <<YearMonth(files[src].mtime)>>,
                          stem |-> src.stem, ext |-> src.ext]]_vars

\* C12 witness: the queue of the running service holds two jobs for one root
\* file, resolved to different months: one producer read the modification time
\* before a rewrite of the file and another one after it.
C12_Witness ==
  /\ phase = "running"
  /\ \E k \in DOMAIN queue, m \in DOMAIN queue :
       /\ queue[k].src = queue[m].src /\ queue[k].src.dir = Root
       /\ queue[k].dst.dir = DestRoot \o <<"2023-06">>
       /\ queue[m].dst.dir = DestRoot \o <<"2023-07">>

\* C13: every job appended to the queue for a file in a subdirectory of the
\* watched root has the destination dest_root joined with the path of the file
\* relative to the watched root, whatever components that relative path has.
C13_MirrorKeepsRelativePath ==
  [][\A k \in DOMAIN queue' :
       LET src == queue'[k].src IN
       (Pushed(k) /\ src.dir # Root) =>
         queue'[k].dst = [dir |-> DestRoot \o SubSeq(src.dir, Len(Root) + 1, Len(src.dir)),
                          stem |-> src.stem, ext |-> src.ext]]_vars

\* a step in which process_batch returns
BatchReturns == batch # <<>> /\ batch' = <<>> /\ \A i \in DOMAIN batch : batch[i].pc = "done"

\* C14: process_batch returns counts with success + failed = k for a batch of
\* k jobs, success being the number of jobs whose process_file returned True,
\* whatever jobs of the batch failed; for an empty batch it returns 0 and 0.
C14_BatchCounts ==
  [][/\ BatchReturns =>
          /\ hist'.counts.success + hist'.counts.failed = Len(batch)
          /\ hist'.counts.success = Cardinality({i \in DOMAIN batch : batch[i].result})
     /\ BatchCounts(<<>>) = [success |-> 0, failed |-> 0]]_vars

\* C14 witness: a batch with a job that succeeded and a job that failed has
\* returned its counts.
C14_Witness == Idle /\ hist.counts.success >= 1 /\ hist.counts.failed >= 1

\* executor threads in _compress_sync, and the permits that jobs hold
CodecsInProgress ==
  Cardinality({i \in DOMAIN batch : batch[i].pc = "codec"}) + Cardinality(orphans)
PermitsHeld == config.max_concurrent_compressions - permits

\* C15: in every state the codec invocations in progress are at most the
\* permits held, and the permits held at most max_concurrent_compressions.
C15_CodecsWithinPermits ==
  /\ CodecsInProgress <= PermitsHeld
  /\ PermitsHeld <= config.max_concurrent_compressions

\* C16: when the process exits after a shutdown, no job that had started was
\* abandoned before it reached the end of process_file.
C16_StartedJobsRunToCompletion ==
  phase = "exited" => hist.abandoned = {}

\* C17: the startup pass over a watched tree that holds one stable JPEG of at
\* least the minimum size in the root, with an empty destination tree and a
\* codec that does not fail, ends with exactly one destination file, at
\* YYYY-MM/<name>.webp for the month of the file, and with the source gone.
C17_EndToEnd ==
  (/\ phase = "initial_batch" /\ Len(batch) = 1 /\ batch[1].pc = "done"
   /\ budget.writes = MaxWrites
   /\ batch[1].src.dir = Root /\ Lower(batch[1].src.ext) \in {".jpg", ".jpeg"}
   /\ batch[1].start.size >= MinBytes
   /\ batch[1].codec # "fail") =>
     /\ batch[1].result /\ batch[1].codec = "ok"
     /\ dstFiles = {[dir |-> DestRoot \o <<YearMonth(batch[1].start.mtime)>>,
                      stem |-> batch[1].src.stem, ext |-> ".webp"]}
     /\ \A p \in SrcPaths : ~Exists(p)

\* C17 witness: the startup pass has turned in/a.jpg, modified in June 2023,
\* into out/2023-06/a.webp.
C17_Witness ==
  /\ phase = "initial_batch" /\ Len(batch) = 1 /\ batch[1].pc = "done"
  /\ budget.writes = MaxWrites
  /\ batch[1].src = FileA /\ batch[1].start.size >= MinBytes /\ batch[1].codec = "ok"
  /\ dstFiles = {Path(<<"out", "2023-06">>, "a", ".webp")}
  /\ ~Exists(FileA)

\* C18: a job that finds its source missing, or finds a directory at its
\* source path, ends with process_file returning False.
C18_MissingOrDirectoryFails ==
  \A j \in Jobs :
    (j.pc # "pending" /\ (~j.start.exists \/ j.start.isdir)) =>
      j.pc = "done" /\ ~j.result

\* C18 witness: a job found a directory at its source path and returned False.
C18_Witness ==
  \E j \in Done : j.start.isdir /\ j.branch = "isdir" /\ ~j.result

\* C19 (as claimed): the jobs that found their source missing or a directory
\* are counted as successes: the failed count of a batch is the number of its
\* other jobs that returned False.
C19_MissingSourceCountsAsDone ==
  [][BatchReturns =>
       hist'.counts.failed =
         Cardinality({i \in DOMAIN batch :
                        ~batch[i].result /\ batch[i].branch \notin {"missing", "isdir"}})]_vars

\* C19 (amended): a job that found its source missing or a directory made no
\* filesystem call and is counted in the failed count of its batch, which is
\* the number of jobs that returned False.
C19_MissingSourceCountsAsFailed ==
  [][BatchReturns =>
       /\ \A i \in DOMAIN batch :
            batch[i].branch \in {"missing", "isdir"} =>
              ~batch[i].result /\ batch[i].ops = {}
       /\ hist'.counts.failed = Cardinality({i \in DOMAIN batch : ~batch[i].result})
       /\ hist'.counts.failed >= hist'.noop]_vars

\* C19 witness: a batch with a job that found no file at its source path has
\* been counted, and the job is among the failed ones.
C19_Witness == Idle /\ hist.noop >= 1 /\ hist.counts.failed >= hist.noop

\* C20: a job that compress() answered from its cache ended True without a
\* codec invocation, its key being in the cache; and the key of every job that
\* invoked the codec is in the cache from the invocation on.
C20_OperationCache ==
  \A j \in Jobs :
    /\ j.branch = "cached" =>
         j.result /\ j.codec = "none" /\ <<j.src, j.dst>> \in compCache
    /\ j.codec # "none" => <<j.src, j.dst>> \in compCache

\* C20 witness: a second job for a (source, dest) pair was answered from the
\* cache while the key of the first one was still there.
C20_Witness ==
  \E j \in Done :
    j.branch = "cached" /\ j.codec = "none" /\ hist.lastCodec[j.src] # "none"

\* the tasks handle_tasks drained from its queue
Tasks == {batch[i] : i \in 1..Len(batch)}

\* C21: in each of its five modes handle_tasks returns, with the queue empty
\* and handle_file run exactly once for every drained job, so that every
\* queued file that is no image, exists and is not empty stands at its
\* destination path; in any other mode it raises.
C21_EveryModeHandlesEveryJob ==
  /\ mode \in Modes => phase # "raised"
  /\ (mode \notin Modes /\ phase # "tasks") => phase = "raised"
  /\ phase = "returned" =>
       /\ queue = <<>>
       /\ \A t \in Tasks :
            /\ t.runs = 1
            /\ (t.src.ext \notin {".jpg", ".jpeg", ".png"} /\ t.last_size > 0) =>
                  t.dst \in dstFiles

\* C22: validate returns exactly for the configurations with both paths
\* existing and every value within its limits, and raises for the others; the
\* components built from a validated configuration have a permit pool of at
\* least one permit and a positive cleanup interval.
C22_ValidateAcceptsValidOnly ==
  LET c == config
      listed == /\ c.uncompressed_exists /\ c.compressed_exists
                /\ c.cleanup_interval_seconds > 0
                /\ c.min_file_size_kb >= 0
                /\ 1 <= c.compression_quality /\ c.compression_quality <= 100
                /\ c.max_resolution > 0
                /\ c.log_level \in {"DEBUG", "INFO", "WARNING", "ERROR", "CRITICAL"}
                /\ c.max_concurrent_compressions > 0
  IN /\ phase \in {"validated", "set_up"} => listed
     /\ phase = "rejected" => ~listed
     /\ phase = "set_up" => permits >= 1 /\ c.cleanup_interval_seconds > 0

\* C22 witness: components were built from a validated configuration whose
\* values stand at their lower limits.
C22_Witness ==
  /\ phase = "set_up" /\ permits = 1
  /\ config.cleanup_interval_seconds = 1 /\ config.min_file_size_kb = 0
  /\ config.compression_quality = 1

C24_UnreadableMtimeEnqueuesNothing ==
  [][\A p \in SrcPaths :
       (DirName(p) = Root /\ ~files[p].exists) =>
         Cardinality({k \in 1..Len(queue') : queue'[k].src = p})
           <= Cardinality({k \in 1..Len(queue) : queue[k].src = p})]_vars

\* C25: until the watcher is started no notification is handled and no
\* periodic pass runs, and the watcher is started only after the startup walk
\* and the whole initial batch are over: the batch has returned and the queue
\* is empty.
C25_StartupBeforeWatching ==
  [][LET early == {"startup", "scanned", "initial_batch", "ready"} IN
     /\ phase \in early =>
          /\ budget'.events = budget.events
          /\ budget'.scans = budget.scans
          /\ hist'.pushed = hist.pushed
     /\ (phase \in early /\ phase' \notin early) =>
          /\ phase = "ready" /\ phase' = "running"
          /\ batch = <<>> /\ queue = <<>>]_vars

\* C25 witness: the initial batch was processed and counted, the watcher was
\* started afterwards, and the first notification has put its job in the queue.
C25_Witness ==
  /\ phase = "running"
  /\ hist.counts.success + hist.counts.failed > 0
  /\ Len(hist.pushed) = 1 /\ Len(queue) = 1 /\ batch = <<>>
  /\ budget.scans = MaxScans

\* C26: a reconciliation pass, the startup scan from an empty queue and empty
\* caches or a periodic scan, adds to the queue exactly one job for every file
\* that exists in the watched tree when it walks, and none for a path with no
\* file, whatever notifications were handled before.
C26_PassEnqueuesEveryFileOnce ==
  [][((phase = "startup" /\ phase' # "startup") \/ budget'.scans < budget.scans) =>
       \A p \in SrcPaths :
         Cardinality({k \in 1..Len(queue') : queue'[k].src = p})
           = Cardinality({k \in 1..Len(queue) : queue[k].src = p})
             + (IF IsFile(p) THEN 1 ELSE 0)]_vars

\* C26 witness: a periodic pass has run and the queue holds exactly one job
\* for a file in a subdirectory for which no notification was ever handled,
\* next to the job a notification pushed for another file.
C26_Witness ==
  /\ budget.scans < MaxScans
  /\ Len(hist.pushed) = 1
  /\ \E p \in SrcPaths :
       /\ IsFile(p) /\ DirName(p) # Root
       /\ \A k \in 1..Len(hist.events) : hist.events[k][2] # p
       /\ Cardinality({k \in 1..Len(queue) : queue[k].src = p}) = 1
       /\ \E k \in 1..Len(queue) : queue[k].src # p

\* C27: with the service left to itself under fairness, every non-empty file
\* in the watched tree is eventually gone from it with a file standing at its
\* destination or at the .webp variant of its destination, also when an
\* earlier job for it failed.
C27_StableFileEventuallyDelivered ==
  \A p \in SrcPaths :
    (IsFile(p) /\ GetSize(p) > 0)
      ~> (LET dest == IF DirName(p) = Root THEN MonthDest(p, FirstTime) ELSE MirrorDest(p)
          IN ~files[p].exists /\ (dest \in dstFiles \/ EnsureWebpExtension(dest) \in dstFiles))

\* C28: a periodic pass removes every directory under the watched root that
\* has no file anywhere beneath it, the directories that hold only empty
\* directories included, and removes neither a directory with a file beneath
\* it, nor the root, nor any file.
C28_PassRemovesEmptyDirectories ==
  [][budget'.scans < budget.scans =>
       /\ \A d \in srcDirs :
            d \in srcDirs' <=>
              (d = Root \/ \E p \in SrcPaths : IsFile(p) /\ d \in Prefixes(DirName(p)))
       /\ srcDirs' \subseteq srcDirs
       /\ \A p \in SrcPaths :
            files'[p] = IF IsDir(p) THEN NoFile ELSE files[p]]_vars

\* C28 witness: the last periodic pass removed a directory whose only entry
\* was an empty directory, and that entry with it; the root still stands.
C28_Witness ==
  /\ hist.sweptNested
  /\ budget.scans < MaxScans
  /\ SubDir \notin srcDirs /\ Root \in srcDirs
  /\ \A p \in SrcPaths : ~IsDir(p)

C30_DirectoryEventIgnored ==
  [][(budget'.events < budget.events /\ hist'.lastIsDir) =>
       (queue' = queue /\ eventCache' = eventCache)]_vars

\* C30 witness: two notifications were handled, the later one for a
\* directory, and the queue and the debounce cache hold the one entry of the
\* earlier.
C30_Witness ==
  /\ hist.lastIsDir
  /\ budget.events = budget.cap - 2
  /\ Len(queue) = 1 /\ Len(eventCache) = 1 /\ Len(hist.events) = 1

\* C31: however the pushes of the observer's thread and of the periodic
\* scanner fall between the steps of the drain loop, every pushed job is in
\* exactly one place: still in the queue, in the pairs the running drain has
\* collected, or among the pairs one drain has returned, and there once.
C31_NothingLostOrDuplicated ==
  LET Count(seq, n) == Cardinality({k \in 1..Len(seq) : seq[k].n = n}) IN
  /\ \A n \in 1..Len(hist.pushed) :
       Count(queue, n) + Count(drain.file_pairs, n) + Count(drain.returned, n) = 1
  /\ Len(queue) + Len(drain.file_pairs) + Len(drain.returned) = Len(hist.pushed)

\* C31 witness: drains have returned a job pushed before the drain began, a
\* job pushed while the loop stood between its test and get_nowait, and a job
\* pushed after the loop had seen the queue empty.
C31_Witness ==
  /\ Len(drain.returned) = MaxPushes
  /\ \E k \in 1..Len(drain.returned) : drain.returned[k].at = "idle"
  /\ \E k \in 1..Len(drain.returned) : drain.returned[k].at = "get"
  /\ \E k \in 1..Len(drain.returned) : drain.returned[k].at = "submit"

\* C32: no job takes the skip-existing exit, which deletes its source, at a
\* moment when the destination file it found is unfinished: still being
\* written by a codec run, or left behind by a codec run that failed.
C32_NoDeleteOnUnfinishedDestination ==
  [][\A i \in 1..Len(batch) :
       (Len(batch') = Len(batch) /\ batch[i].pc = "pending" /\ batch'[i].branch = "skip") =>
         /\ batch[i].dst \notin Incomplete
         /\ (EnsureWebpExtension(batch[i].dst) \in dstFiles =>
               EnsureWebpExtension(batch[i].dst) \notin Incomplete)]_vars

\* C35: no two jobs of one batch with distinct sources both end successfully
\* on one destination file: neither by both writing it, nor by one of them
\* deleting its source because the file of the other stands there.
C35_DistinctSourcesDistinctOutputs ==
  \A i, k \in 1..Len(batch) :
    (i # k /\ batch[i].src # batch[k].src
       /\ batch[i].pc = "done" /\ batch[i].result
       /\ batch[k].pc = "done" /\ batch[k].result) =>
      EnsureWebpExtension(batch[i].dst) # EnsureWebpExtension(batch[k].dst)

\* C33: whenever process_file has removed its source with os.remove, a file
\* stands at its dest_path or at the .webp variant of its dest_path.
C33_RemoveOnlyWithDestination ==
  \A j \in Jobs :
    "remove" \in j.ops =>
      (j.dst \in dstFiles \/ EnsureWebpExtension(j.dst) \in dstFiles)

\* C34: at no time are two operations on one source in flight: no two started
\* jobs of the batch have the same source, and no job is started for a source
\* while the codec run of an earlier batch for that source is still going.
C34_OneOperationPerSource ==
  /\ \A i, k \in 1..Len(batch) :
       (i # k /\ Started(batch[i]) /\ Started(batch[k])) => batch[i].src # batch[k].src
  /\ \A i \in 1..Len(batch), o \in orphans :
       Started(batch[i]) => batch[i].src # o.src

\* C36: the free permits are always max_concurrent_compressions less the jobs
\* that are inside process_file, so that with no job in flight, after jobs
\* ended done, failed or cancelled, every permit is free again.
C36_PermitsReleased ==
  permits = config.max_concurrent_compressions
              - Cardinality({i \in 1..Len(batch) :
                               batch[i].pc \in {"sleeping", "codec", "codec_done"}})

\* C36 witness: a batch whose job held a permit was cancelled by the
\* shutdown, the final batch has run a job to its end after it, and all
\* permits are free.
C36_Witness ==
  /\ hist.abandoned # {}
  /\ \E j \in Jobs : j.pc = "done" /\ j.branch \in {"transform", "timeout", "move"}
  /\ permits = config.max_concurrent_compressions

\* C37: a job that has returned False made no remove and no rename, and its
\* source, when it was a file at the start of the job and the external writer
\* has not touched it since, is still the file the job found.
C37_FalseLeavesSource ==
  \A j \in Jobs : (j.pc = "done" /\ ~j.result) =>
    /\ j.ops \cap {"remove", "rename"} = {}
    /\ (j.start.exists /\ ~j.start.isdir /\ ~j.touched) => files[j.src] = j.start

\* C37 witness: one batch holds a job that returned False on an exception
\* and a job that returned False on a failed codec run or on the timeout, and
\* both sources are the files the jobs found.
C37_Witness ==
  \E j1 \in Jobs, j2 \in Jobs :
    /\ j1.pc = "done" /\ ~j1.result /\ j1.branch = "exception"
    /\ j2.pc = "done" /\ ~j2.result /\ j2.branch \in {"timeout", "transform"}
    /\ j1.start.exists /\ ~j1.touched /\ files[j1.src] = j1.start
    /\ j2.start.exists /\ ~j2.touched /\ files[j2.src] = j2.start

\* C38 as stated: every job that found its source an empty file, and whose
\* source the external writer has not touched since, stays in the stability
\* wait until the timeout, returns False and leaves the file.
C38_EmptyFileAlwaysTimesOut ==
  \A j \in Jobs :
    (j.pc # "pending" /\ j.start.exists /\ ~j.start.isdir /\ j.start.size = 0
       /\ ~j.touched) =>
      /\ j.pc \in {"sleeping", "done"}
      /\ j.pc = "done" =>
            /\ j.branch = "timeout" /\ ~j.result /\ j.polls = TimeoutPolls
            /\ j.ops = {} /\ files[j.src] = j.start

\* C38: every job that found its source an empty file and reached the
\* stability wait (skip_existing_files is off, or no destination existed),
\* and whose source the external writer has not touched since, holds its
\* permit in the wait until the timeout, returns False and leaves the file;
\* the job of a later pass does the same.
C38_EmptyFileTimesOut ==
  \A j \in Jobs :
    (j.pc # "pending" /\ j.start.exists /\ ~j.start.isdir /\ j.start.size = 0
       /\ ~j.touched /\ ~(config.skip_existing_files /\ j.destSeen)) =>
      /\ j.pc \in {"sleeping", "done"}
      /\ j.pc = "sleeping" => permits < config.max_concurrent_compressions
      /\ j.pc = "done" =>
            /\ j.branch = "timeout" /\ ~j.result /\ j.polls = TimeoutPolls
            /\ j.ops = {} /\ files[j.src] = j.start

\* C38 witness: nothing was written and no event came, the file has been
\* empty since the start, so its job of the startup batch timed out; the
\* periodic pass has enqueued it again and that job has timed out as well.
C38_Witness ==
  /\ budget.writes = MaxWrites /\ budget.events = MaxEvents
  /\ budget.scans < MaxScans
  /\ phase = "running"
  /\ \E j \in Jobs :
       /\ j.pc = "done" /\ j.branch = "timeout" /\ j.polls = TimeoutPolls
       /\ j.start.size = 0 /\ files[j.src] = j.start

\* C39: once a periodic pass has raised, the periodic task is still there,
\* asleep until its next pass, for as long as the service runs; it ends
\* only by the cancellation of the shutdown.
C39_RaisingPassKeepsTask ==
  hist.raised =>
    watcher.cleanup_task = IF phase = "running" THEN "sleeping" ELSE "cancelled"

\* C39 witness: a pass raised, and a later pass ran to its end.
C39_Witness ==
  /\ hist.raised /\ hist.recovered
  /\ phase = "running" /\ watcher.cleanup_task = "sleeping"

\* C40: once shutdown has completed the periodic task is cancelled, the
\* observer is stopped and the queue is empty; the final batch is the queue
\* as it stood when the shutdown began, one pair for each source (the last
\* one), and from the shutdown on no step adds a pair to the queue.
C40_ShutdownDrainsQueue ==
  /\ [](phase = "exited" =>
          /\ watcher = [cleanup_task |-> "cancelled", observer |-> "stopped"]
          /\ queue = <<>>
          /\ hist.submitted = DeduplicateBySource(hist.atShutdown))
  /\ [][(phase \in {"stopping", "drained", "exited"}) => (Len(queue') <= Len(queue))]_vars

\* C40 witness: the shutdown found two pairs for one source in the queue,
\* the final batch took the later pair, and the process has exited.
C40_Witness ==
  /\ phase = "exited"
  /\ Len(hist.atShutdown) > Len(hist.submitted)
  /\ hist.submitted # <<>>
  /\ queue = <<>>

====
